---- MODULE Spec2Model ----
(***************************************************************************)
(* The physics actor of the Open Surge engine (physicsactor.c): the        *)
(* fixed-timestep driver, the sensor bank, the movement-mode state         *)
(* machine, the per-tick simulation and the public setters.                *)
(*                                                                         *)
(* Numbers.  The C code computes in single-precision floats.  The model    *)
(* computes in fixed point:                                                *)
(*   time      in 1/TimeUnit seconds (1/60 s = 8, 3/32 s = 45),            *)
(*   speed     in 1/VelUnit pixels per second (3/64 px/frame = 180),       *)
(*   position  in 1/PosUnit pixels,                                        *)
(*   cos/sin   in 1/TrigUnit (the five decimals of cos_table),             *)
(*   ratios    (charge intensity, air drag) in 1/TrigUnit.                 *)
(* With the default parameters and frame deltas that are multiples of      *)
(* 1/60 s every speed update is exact; a product with a table entry is     *)
(* rounded to the nearest unit.                                            *)
(***************************************************************************)
EXTENDS Integers, Sequences, FiniteSets, TLC

(***************************************************************************)
(* Units and bounds                                                        *)
(***************************************************************************)
TARGET_FPS == 60
TimeUnit == 8 * TARGET_FPS
VelUnit == 64
PosUnit == VelUnit * TARGET_FPS
TrigUnit == 100000
FIXED_TIMESTEP == TimeUnit \div TARGET_FPS

(***************************************************************************)
(* Arithmetic                                                              *)
(***************************************************************************)
Abs(x) == IF x < 0 THEN -x ELSE x
Min(a, b) == IF a < b THEN a ELSE b
Max(a, b) == IF a > b THEN a ELSE b
clip(v, lo, hi) == IF v < lo THEN lo ELSE IF v > hi THEN hi ELSE v
clip01(v) == clip(v, 0, TrigUnit)
\* util.h: sign(x) is +1 for x >= 0 and -1 otherwise
sign(x) == IF x >= 0 THEN 1 ELSE -1
\* numeric.h: |x| below the float epsilon, which is finer than one model unit
nearly_zero(x) == x = 0

\* a / d rounded to the nearest integer, halves away from zero (d > 0)
RoundDiv(a, d) == sign(a) * ((2 * Abs(a) + d) \div (2 * d))
\* (int)x of C: truncation towards zero
TruncDiv(a, d) == sign(a) * (Abs(a) \div d)
\* floorf(x)
FloorDiv(a, d) == IF a >= 0 THEN a \div d ELSE -((-a + d - 1) \div d)
\* ceilf(x)
CeilDiv(a, d) == -FloorDiv(-a, d)

\* v * c / TrigUnit, rounded, without leaving 32 bits (|v| < 2^21, |c| < 2^21)
MulTrig(v, c) ==
    LET a == Abs(v)
        b == Abs(c)
        bh == b \div 1000
        bl == b % 1000
        X == a * bh
        q1 == X \div 100
        r1 == X % 100
        rest == r1 * 1000 + a * bl
    IN  sign(v) * sign(c) * (q1 + (rest + (TrigUnit \div 2)) \div TrigUnit)

\* a speed change: acceleration a (speed units per second) during dt
Dv(a, dt) == RoundDiv(a * dt, TimeUnit)
\* a displacement: speed v during dt, in position units
Ds(v, dt) == RoundDiv(v * dt, (VelUnit * TimeUnit) \div PosUnit)
\* pixels to position units, and the pixel a position lies in
Px(n) == n * PosUnit
FloorPx(p) == FloorDiv(p, PosUnit)
TruncPx(p) == TruncDiv(p, PosUnit)

(***************************************************************************)
(* sine/cosine table: the angle ranges in 0-255 and increases clockwise    *)
(***************************************************************************)
cos_table ==
  <<
     100000,   99970,   99880,   99729,   99518,   99248,   98918,   98528,
      98079,   97570,   97003,   96378,   95694,   94953,   94154,   93299,
      92388,   91421,   90399,   89322,   88192,   87009,   85773,   84485,
      83147,   81758,   80321,   78835,   77301,   75721,   74095,   72425,
      70711,   68954,   67156,   65317,   63439,   61523,   59570,   57581,
      55557,   53500,   51410,   49290,   47140,   44961,   42755,   40524,
      38268,   35990,   33689,   31368,   29028,   26671,   24298,   21910,
      19509,   17096,   14673,   12241,    9802,    7356,    4907,    2454,
          0,   -2454,   -4907,   -7356,   -9802,  -12241,  -14673,  -17096,
     -19509,  -21910,  -24298,  -26671,  -29028,  -31368,  -33689,  -35990,
     -38268,  -40524,  -42755,  -44961,  -47140,  -49290,  -51410,  -53500,
     -55557,  -57581,  -59570,  -61523,  -63439,  -65317,  -67156,  -68954,
     -70711,  -72425,  -74095,  -75721,  -77301,  -78835,  -80321,  -81758,
     -83147,  -84485,  -85773,  -87009,  -88192,  -89322,  -90399,  -91421,
     -92388,  -93299,  -94154,  -94953,  -95694,  -96378,  -97003,  -97570,
     -98079,  -98528,  -98918,  -99248,  -99518,  -99729,  -99880,  -99970,
    -100000,  -99970,  -99880,  -99729,  -99518,  -99248,  -98918,  -98528,
     -98079,  -97570,  -97003,  -96378,  -95694,  -94953,  -94154,  -93299,
     -92388,  -91421,  -90399,  -89322,  -88192,  -87009,  -85773,  -84485,
     -83147,  -81758,  -80321,  -78835,  -77301,  -75721,  -74095,  -72425,
     -70711,  -68954,  -67156,  -65317,  -63439,  -61523,  -59570,  -57581,
     -55557,  -53500,  -51410,  -49290,  -47140,  -44961,  -42756,  -40524,
     -38268,  -35990,  -33689,  -31368,  -29028,  -26671,  -24298,  -21910,
     -19509,  -17096,  -14673,  -12241,   -9802,   -7356,   -4907,   -2454,
          0,    2454,    4907,    7356,    9802,   12241,   14673,   17096,
      19509,   21910,   24298,   26671,   29028,   31368,   33689,   35990,
      38268,   40524,   42756,   44961,   47140,   49290,   51410,   53500,
      55557,   57581,   59570,   61523,   63439,   65317,   67156,   68954,
      70711,   72425,   74095,   75721,   77301,   78835,   80321,   81758,
      83147,   84485,   85773,   87009,   88192,   89322,   90399,   91421,
      92388,   93299,   94154,   94953,   95694,   96378,   97003,   97570,
      98079,   98528,   98918,   99248,   99518,   99729,   99880,   99970
  >>

slp_table ==
  <<
    <<160, 162, 164, 166, 169, 172, 175, 178, 181, 185, 188, 192, 196, 199, 203, 206, 209, 212, 215, 218, 220, 222, 224>>,
    <<158, 160, 162, 165, 167, 170, 173, 176, 180, 184, 188, 192, 196, 200, 204, 208, 211, 214, 217, 219, 222, 224, 226>>,
    <<156, 158, 160, 162, 165, 168, 171, 175, 179, 183, 187, 192, 197, 201, 205, 209, 213, 216, 219, 222, 224, 226, 228>>,
    <<154, 155, 158, 160, 163, 166, 169, 173, 177, 182, 187, 192, 197, 202, 207, 211, 215, 218, 221, 224, 226, 229, 230>>,
    <<151, 153, 155, 157, 160, 163, 167, 171, 176, 181, 186, 192, 198, 203, 208, 213, 217, 221, 224, 227, 229, 231, 233>>,
    <<148, 150, 152, 154, 157, 160, 164, 168, 173, 179, 185, 192, 199, 205, 211, 216, 220, 224, 227, 230, 232, 234, 236>>,
    <<145, 147, 149, 151, 153, 156, 160, 165, 170, 176, 184, 192, 200, 208, 214, 219, 224, 228, 231, 233, 235, 237, 239>>,
    <<142, 144, 145, 147, 149, 152, 155, 160, 166, 173, 182, 192, 202, 211, 218, 224, 229, 232, 235, 237, 239, 240, 242>>,
    <<139, 140, 141, 143, 144, 147, 150, 154, 160, 168, 179, 192, 205, 216, 224, 230, 234, 237, 240, 241, 243, 244, 245>>,
    <<135, 136, 137, 138, 139, 141, 144, 147, 152, 160, 173, 192, 211, 224, 232, 237, 240, 243, 245, 246, 247, 248, 249>>,
    <<132, 132, 133, 133, 134, 135, 136, 138, 141, 147, 160, 192, 224, 237, 243, 246, 248, 249, 250, 251, 251, 252, 252>>,
    <<128, 128, 128, 128, 128, 128, 128, 128, 128, 128, 128,   0,   0,   0,   0,   0,   0,   0,   0,   0,   0,   0,   0>>,
    <<124, 124, 123, 123, 122, 121, 120, 118, 115, 109,  96,  64,  32,  19,  13,  10,   8,   7,   6,   5,   5,   4,   4>>,
    <<121, 120, 119, 118, 117, 115, 112, 109, 104,  96,  83,  64,  45,  32,  24,  19,  16,  13,  11,  10,   9,   8,   7>>,
    <<117, 116, 115, 113, 112, 109, 106, 102,  96,  88,  77,  64,  51,  40,  32,  26,  22,  19,  16,  15,  13,  12,  11>>,
    <<114, 112, 111, 109, 107, 104, 101,  96,  90,  83,  74,  64,  54,  45,  38,  32,  27,  24,  21,  19,  17,  16,  14>>,
    <<111, 109, 107, 105, 103, 100,  96,  91,  86,  80,  72,  64,  56,  48,  42,  37,  32,  28,  25,  23,  21,  19,  17>>,
    <<108, 106, 104, 102,  99,  96,  92,  88,  83,  77,  71,  64,  57,  51,  45,  40,  36,  32,  29,  26,  24,  22,  20>>,
    <<105, 103, 101,  99,  96,  93,  89,  85,  80,  75,  70,  64,  58,  53,  48,  43,  39,  35,  32,  29,  27,  25,  23>>,
    <<102, 101,  98,  96,  93,  90,  87,  83,  79,  74,  69,  64,  59,  54,  49,  45,  41,  38,  35,  32,  30,  27,  26>>,
    <<100,  98,  96,  94,  91,  88,  85,  81,  77,  73,  69,  64,  59,  55,  51,  47,  43,  40,  37,  34,  32,  30,  28>>,
    << 98,  96,  94,  91,  89,  86,  83,  80,  76,  72,  68,  64,  60,  56,  52,  48,  45,  42,  39,  37,  34,  32,  30>>,
    << 96,  94,  92,  90,  87,  84,  81,  78,  75,  71,  68,  64,  60,  57,  53,  50,  47,  44,  41,  38,  36,  34,  32>>
  >>

And255(a) == a % 256
COS(a) == cos_table[And255(a) + 1]
SIN(a) == cos_table[And255(a + 64) + 1]

SLOPE_LIMIT == 11
\* an index macro that clamps one short of the limit
SlopeIndex_narrow(v) ==
    SLOPE_LIMIT + v
      + (IF v < -(SLOPE_LIMIT - 1) THEN -(SLOPE_LIMIT - 1) - v ELSE 0)
      + (IF v > SLOPE_LIMIT - 1 THEN SLOPE_LIMIT - 1 - v ELSE 0)
\* the index macro of SLOPE: a component beyond the limit is clamped to it
SlopeIndex(v) ==
    SLOPE_LIMIT + v
      + (IF v < -SLOPE_LIMIT THEN -SLOPE_LIMIT - v ELSE 0)
      + (IF v > SLOPE_LIMIT THEN SLOPE_LIMIT - v ELSE 0)
SLOPE(y, x) == slp_table[SlopeIndex(y) + 1][SlopeIndex(x) + 1]

\* the min angle between alpha and beta
delta_angle(alpha, beta) ==
    LET a == And255(alpha)
        b == And255(beta)
        diff == IF a > b THEN a - b ELSE b - a
    IN  IF diff > 128 THEN 255 - diff + 1 ELSE diff

(***************************************************************************)
(* The obstacle map (obstaclemap.h, obstacle.h), consumed through its      *)
(* interface.  An obstacle covers the columns x1..x2; in column x it       *)
(* spans the rows from its surface SurfY down to bottom.  The surface is   *)
(* a line: top at column x1, then rise rows every run columns (0: a        *)
(* rectangle).  It is solid, or a cloud (a one-way platform).              *)
(***************************************************************************)
Rect(x1, y1, x2, y2, solid) ==
    [x1 |-> x1, x2 |-> x2, top |-> y1, rise |-> 0, run |-> 1, bottom |-> y2, solid |-> solid]
Ramp(x1, y1, x2, y2, rise, run, solid) ==
    [x1 |-> x1, x2 |-> x2, top |-> y1, rise |-> rise, run |-> run, bottom |-> y2, solid |-> solid]

SurfY(o, x) == o.top + FloorDiv((clip(x, o.x1, o.x2) - o.x1) * o.rise, o.run)
MinTop(o) == Min(SurfY(o, o.x1), SurfY(o, o.x2))

obstacle_is_solid(o) == o.solid
obstacle_point_collision(o, x, y) ==
    /\ o.x1 <= x /\ x <= o.x2
    /\ SurfY(o, x) <= y /\ y <= o.bottom
\* the rectangle (xa, ya)-(xb, yb), xa <= xb and ya <= yb, touches the obstacle
obstacle_got_collision(o, xa, ya, xb, yb) ==
    /\ xa <= o.x2 /\ o.x1 <= xb
    /\ ya <= o.bottom
    /\ Min(SurfY(o, Max(xa, o.x1)), SurfY(o, Min(xb, o.x2))) <= yb

GD_DOWN == "down"
GD_UP == "up"
GD_LEFT == "left"
GD_RIGHT == "right"
\* the first and the last column of the obstacle that is solid at height y
FirstColumn(o, y) ==
    LET yc == clip(y, MinTop(o), o.bottom)
    IN  IF o.rise >= 0 THEN o.x1
        ELSE Max(o.x1, o.x1 + FloorDiv((o.top - yc - 1) * o.run, -o.rise) + 1)
LastColumn(o, y) ==
    LET yc == clip(y, MinTop(o), o.bottom)
    IN  IF o.rise <= 0 THEN o.x2
        ELSE Min(o.x2, o.x1 + CeilDiv((yc - o.top + 1) * o.run, o.rise) - 1)
\* the coordinate of the obstacle's surface met when moving in direction dir
obstacle_ground_position(o, x, y, dir) ==
    CASE dir = GD_DOWN -> SurfY(o, x)
      [] dir = GD_UP -> o.bottom
      [] dir = GD_RIGHT -> FirstColumn(o, y)
      [] dir = GD_LEFT -> LastColumn(o, y)

MM_FLOOR == "floor"
MM_RIGHTWALL == "rightwall"
MM_CEILING == "ceiling"
MM_LEFTWALL == "leftwall"

NoObstacle == 0
\* the direction of the ground in a movement mode
GroundDir(mm) ==
    CASE mm = MM_FLOOR -> GD_DOWN
      [] mm = MM_LEFTWALL -> GD_LEFT
      [] mm = MM_CEILING -> GD_UP
      [] mm = MM_RIGHTWALL -> GD_RIGHT
\* of two obstacles of the same kind, the one whose ground comes first
BetterGround(i, j, ha, hb, mm) ==
    IF ha # hb
      THEN IF mm \in {MM_FLOOR, MM_RIGHTWALL} THEN ha < hb ELSE ha > hb
      ELSE i <= j

\* obstacle i is at least as relevant as obstacle j for a probe of (xa, ya)-(xb, yb):
\* a solid obstacle before a cloud, then the one whose ground comes first
Better(om, i, j, xb, yb, mm) ==
    IF om[i].solid # om[j].solid THEN om[i].solid
    ELSE BetterGround(i, j, obstacle_ground_position(om[i], xb, yb, GroundDir(mm)),
                            obstacle_ground_position(om[j], xb, yb, GroundDir(mm)), mm)
\* the best of the obstacles hit
BestObstacle(om, hit, xb, yb, mm) ==
    IF hit = {} THEN NoObstacle
    ELSE CHOOSE i \in hit : \A j \in hit : Better(om, i, j, xb, yb, mm)

obstaclemap_get_best_obstacle_at(om, xa, ya, xb, yb, mm) ==
    BestObstacle(om, {i \in 1..Len(om) : obstacle_got_collision(om[i], xa, ya, xb, yb)}, xb, yb, mm)
obstaclemap_obstacle_exists(om, x, y) ==
    \E i \in 1..Len(om) : obstacle_point_collision(om[i], x, y)

(***************************************************************************)
(* Sensors (sensor.h): segments in sprite-local coordinates, three poses   *)
(***************************************************************************)
sensor_create_vertical(x, y1, y2) == [x1 |-> x, y1 |-> y1, x2 |-> x, y2 |-> y2]
sensor_create_horizontal(y, x1, x2) == [x1 |-> x1, y1 |-> y, x2 |-> x2, y2 |-> y]

Normal == "normal"
InTheAir == "intheair"
JumpRoll == "jumproll"
SensorBank ==
    [A |-> [normal |-> sensor_create_vertical(-9, 0, 20),
            intheair |-> sensor_create_vertical(-9, 0, 20),
            jumproll |-> sensor_create_vertical(-5, 0, 19)],
     B |-> [normal |-> sensor_create_vertical(9, 0, 20),
            intheair |-> sensor_create_vertical(9, 0, 20),
            jumproll |-> sensor_create_vertical(5, 0, 19)],
     C |-> [normal |-> sensor_create_vertical(-9, -24, 0),
            intheair |-> sensor_create_vertical(-9, -24, 0),
            jumproll |-> sensor_create_vertical(-5, -10, 0)],
     D |-> [normal |-> sensor_create_vertical(9, -24, 0),
            intheair |-> sensor_create_vertical(9, -24, 0),
            jumproll |-> sensor_create_vertical(5, -10, 0)],
     M |-> [normal |-> sensor_create_horizontal(4, -10, 0),
            intheair |-> sensor_create_horizontal(0, -11, 0),
            jumproll |-> sensor_create_horizontal(0, -11, 0)],
     N |-> [normal |-> sensor_create_horizontal(4, 0, 10),
            intheair |-> sensor_create_horizontal(0, 0, 11),
            jumproll |-> sensor_create_horizontal(0, 0, 11)],
     U |-> [normal |-> sensor_create_horizontal(-4, 0, 0),
            intheair |-> sensor_create_horizontal(-4, 0, 0),
            jumproll |-> sensor_create_horizontal(-4, 0, 0)]]

\* the rotation of a local point into the world, by movement mode
RotX(x, y, mm) ==
    CASE mm = MM_FLOOR -> x
      [] mm = MM_RIGHTWALL -> y
      [] mm = MM_CEILING -> -x
      [] mm = MM_LEFTWALL -> -y
RotY(x, y, mm) ==
    CASE mm = MM_FLOOR -> y
      [] mm = MM_RIGHTWALL -> -x
      [] mm = MM_CEILING -> -y
      [] mm = MM_LEFTWALL -> x
\* head (x1, y1) and tail (x2, y2) of a sensor in the world; pos in position units
sensor_worldpos(s, pos, mm) ==
    [x1 |-> FloorPx(pos.x) + RotX(s.x1, s.y1, mm),
     y1 |-> FloorPx(pos.y) + RotY(s.x1, s.y1, mm),
     x2 |-> FloorPx(pos.x) + RotX(s.x2, s.y2, mm),
     y2 |-> FloorPx(pos.y) + RotY(s.x2, s.y2, mm)]
\* the obstacle under the segment w of the world
sensor_probe(w, mm, om) ==
    obstaclemap_get_best_obstacle_at(om, Min(w.x1, w.x2), Min(w.y1, w.y2),
                                         Max(w.x1, w.x2), Max(w.y1, w.y2), mm)

sensor_check(s, enabled, pos, mm, om) ==
    IF ~enabled THEN NoObstacle ELSE sensor_probe(sensor_worldpos(s, pos, mm), mm, om)

(***************************************************************************)
(* The actor                                                               *)
(***************************************************************************)
PAS_STOPPED == "Stopped"
PAS_WAITING == "Waiting"
PAS_WALKING == "Walking"
PAS_RUNNING == "Running"
PAS_JUMPING == "Jumping"
PAS_ROLLING == "Rolling"
PAS_PUSHING == "Pushing"
PAS_GETTINGHIT == "Gettinghit"
PAS_BRAKING == "Braking"
PAS_LOOKINGUP == "LookingUp"
PAS_DUCKING == "Ducking"
PAS_CHARGING == "Charging"
PAS_SPRINGING == "Springing"
PAS_BREATHING == "Breathing"
PAS_LEDGE == "Ledge"
PAS_WINNING == "Winning"
PAS_DEAD == "Dead"
PAS_DROWNED == "Drowned"

IB_LEFT == "left"
IB_RIGHT == "right"
IB_UP == "up"
IB_DOWN == "down"
IB_FIRE1 == "fire1"

CLOUD_OFFSET == 12

\* logf on the air drag ratios the model uses, in 1/TrigUnit
logf(a) ==
    CASE a = 96875 -> -3175
      [] a = 50000 -> -69315
      [] OTHER -> 0
\* the coefficients (c0, c1) of the approximation pow(airdrag, 60 dt) ~ c0 dt + c1
AirdragCoefficient(airdrag) ==
    IF airdrag > 0 /\ airdrag < TrigUnit
      THEN <<60 * MulTrig(airdrag, logf(airdrag)), MulTrig(airdrag, TrigUnit - logf(airdrag))>>
    ELSE IF airdrag > 0 THEN <<0, TrigUnit>>
    ELSE <<0, 0>>

\* the value stored as it is given
physicsactor_set_airdrag_raw(m, value) ==
    [m EXCEPT !.airdrag = value,
              !.airdrag_coefficient = AirdragCoefficient(value)]

physicsactor_set_airdrag(m, value) ==
    [m EXCEPT !.airdrag = clip01(value),
              !.airdrag_coefficient = AirdragCoefficient(clip01(value))]

\* the model parameters: magic number * fps multiplier, in model units
physicsactor_reset_model_parameters ==
    LET fpsmul == TARGET_FPS
        m == [acc |-> (3 * fpsmul * fpsmul * VelUnit) \div 64,
              dec |-> (fpsmul * fpsmul * VelUnit) \div 2,
              frc |-> (3 * fpsmul * fpsmul * VelUnit) \div 64,
              capspeed |-> 16 * fpsmul * VelUnit,
              topspeed |-> 6 * fpsmul * VelUnit,
              topyspeed |-> 16 * fpsmul * VelUnit,
              air |-> (6 * fpsmul * fpsmul * VelUnit) \div 64,
              airdrag |-> (31 * TrigUnit) \div 32,
              jmp |-> -((13 * fpsmul * VelUnit) \div 2),
              jmprel |-> -(4 * fpsmul * VelUnit),
              diejmp |-> -(7 * fpsmul * VelUnit),
              hitjmp |-> -(4 * fpsmul * VelUnit),
              grv |-> (14 * fpsmul * fpsmul * VelUnit) \div 64,
              slp |-> (8 * fpsmul * fpsmul * VelUnit) \div 64,
              chrg |-> 12 * fpsmul * VelUnit,
              walkthreshold |-> (fpsmul * VelUnit) \div 2,
              unrollthreshold |-> (fpsmul * VelUnit) \div 2,
              rollthreshold |-> fpsmul * VelUnit,
              rollfrc |-> (3 * fpsmul * fpsmul * VelUnit) \div 128,
              rolldec |-> (8 * fpsmul * fpsmul * VelUnit) \div 64,
              rolluphillslp |-> (5 * fpsmul * fpsmul * VelUnit) \div 64,
              rolldownhillslp |-> (20 * fpsmul * fpsmul * VelUnit) \div 64,
              falloffthreshold |-> (5 * fpsmul * VelUnit) \div 2,
              brakingthreshold |-> 4 * fpsmul * VelUnit,
              airdragthreshold |-> -(4 * fpsmul * VelUnit),
              airdragxthreshold |-> (8 * fpsmul * VelUnit) \div 64,
              chrgthreshold |-> RoundDiv(TrigUnit, 64),
              waittime |-> 3 * TimeUnit,
              airdrag_coefficient |-> <<0, TrigUnit>>]
    IN  physicsactor_set_airdrag(m, m.airdrag)

physicsactor_create(position) ==
    [position |-> position,
     xsp |-> 0, ysp |-> 0, gsp |-> 0,
     angle |-> 0,
     movmode |-> MM_FLOOR,
     state |-> PAS_STOPPED,
     midair |-> TRUE,
     was_midair |-> FALSE,
     midair_timer |-> 0,
     hlock_timer |-> 0,
     jump_lock_timer |-> 0,
     facing_right |-> TRUE,
     touching_ceiling |-> FALSE,
     inside_wall |-> FALSE,
     wait_timer |-> 0,
     winning_pose |-> FALSE,
     breathe_timer |-> 0,
     sticky_lock |-> FALSE,
     charge_intensity |-> 0,
     reference_time |-> 0,
     fixed_time |-> 0]

input_create_computer == [state |-> {}, oldstate |-> {}, enabled |-> TRUE]
input_button_down(in, b) == in.enabled /\ b \in in.state
input_button_pressed(in, b) == in.enabled /\ b \in in.state /\ b \notin in.oldstate
input_simulate_button_down(in, b) == [in EXCEPT !.state = @ \cup {b}]
input_simulate_button_up(in, b) == [in EXCEPT !.state = @ \ {b}]
input_reset(in) == [in EXCEPT !.state = {}]
input_disable(in) == [in EXCEPT !.enabled = FALSE]

\* the pose of the sensors in use
Pose(a) ==
    IF a.state = PAS_JUMPING \/ a.state = PAS_ROLLING THEN JumpRoll
    ELSE IF a.midair \/ a.state = PAS_SPRINGING THEN InTheAir
    ELSE Normal
sensor_A(a) == SensorBank.A[Pose(a)]
sensor_B(a) == SensorBank.B[Pose(a)]
sensor_C(a) == SensorBank.C[Pose(a)]
sensor_D(a) == SensorBank.D[Pose(a)]
sensor_M(a) == SensorBank.M[Pose(a)]
sensor_N(a) == SensorBank.N[Pose(a)]
sensor_U(a) == SensorBank.U[Pose(a)]

WALKING_OR_RUNNING(a, m) == IF Abs(a.gsp) >= m.topspeed THEN PAS_RUNNING ELSE PAS_WALKING

\* distance between the angle sensors
distance_between_angle_sensors == 1 - SensorBank.A[Normal].x1

(***************************************************************************)
(* A tick works on a context c: the actor c.pa, its input c.in, the        *)
(* obstacles under the sensors c.at, the parameters c.m, the obstacle map  *)
(* c.om, and a log c.tr of what the tick did.                              *)
(***************************************************************************)
\* the mode kept wherever the angle is not of the floor
MovModeForAngle_kept(angle, movmode) ==
    IF angle < 32 \/ angle > 224 THEN MM_FLOOR
    ELSE movmode

MovModeForAngle(angle, movmode) ==
    IF angle < 32 \/ angle > 224 THEN MM_FLOOR
    ELSE IF angle > 32 /\ angle < 96 THEN MM_LEFTWALL
    ELSE IF angle > 96 /\ angle < 160 THEN MM_CEILING
    ELSE IF angle > 160 /\ angle < 224 THEN MM_RIGHTWALL
    ELSE movmode

\* the mode follows the angle and gsp is never negated
update_movmode_plain(c) == [c EXCEPT !.pa.movmode = MovModeForAngle(c.pa.angle, c.pa.movmode)]

\* call update_movmode() whenever you update pa->angle
update_movmode(c) ==
    LET a == c.pa
        toFloor == a.angle < 32 \/ a.angle > 224
    IN  [c EXCEPT !.pa.gsp = IF toFloor /\ a.movmode = MM_CEILING THEN -a.gsp ELSE a.gsp,
                  !.pa.movmode = MovModeForAngle(a.angle, a.movmode)]

\* the tail of the foot sensor, at w, in the cloud at
FootCloudTail(c, w, at) ==
    IF ~obstacle_point_collision(c.om[at], w.x2, w.y2) THEN NoObstacle
    ELSE IF c.pa.midair /\ c.pa.movmode = MM_FLOOR /\ c.pa.angle = 0
           THEN IF w.y2 < obstacle_ground_position(c.om[at], w.x2, w.y2, GD_DOWN) + CLOUD_OFFSET
                  THEN at ELSE NoObstacle
    ELSE at

\* a cloud under a foot sensor counts only while the sensor's tail is in it
\* and, in the air on a level floor, still near its top
FootCloud(c, s, at) ==
    IF at = NoObstacle \/ obstacle_is_solid(c.om[at]) THEN at
    ELSE FootCloudTail(c, sensor_worldpos(s, c.pa.position, c.pa.movmode), at)

SolidOnly(c, at) == IF at # NoObstacle /\ obstacle_is_solid(c.om[at]) THEN at ELSE NoObstacle

\* A, B: ignore clouds when moving upwards
FootUpwards(c, at) ==
    IF c.pa.ysp < 0 /\ -c.pa.ysp > Abs(c.pa.xsp) THEN SolidOnly(c, at) ELSE at

\* what the sensors read: the obstacles under them, midair, touching_ceiling
SensorsRead(c, at_A, at_B, at_C, at_D, at_M, at_N) ==
    [c EXCEPT !.at = [A |-> at_A, B |-> at_B, C |-> at_C, D |-> at_D, M |-> at_M, N |-> at_N],
              !.pa.midair = (at_A = NoObstacle /\ at_B = NoObstacle),
              !.pa.touching_ceiling = (at_C # NoObstacle \/ at_D # NoObstacle)]

\* A, B: two clouds whose tops gnd_a, gnd_b are apart: the higher one only
CloudsApart_higher(c, at_A, at_B, gnd_a, gnd_b, at_C, at_D, at_M, at_N) ==
    IF Abs(gnd_a - gnd_b) > 8
      THEN IF gnd_a < gnd_b THEN SensorsRead(c, at_A, NoObstacle, at_C, at_D, at_M, at_N)
                            ELSE SensorsRead(c, NoObstacle, at_B, at_C, at_D, at_M, at_N)
      ELSE SensorsRead(c, at_A, at_B, at_C, at_D, at_M, at_N)

\* A, B: two clouds whose tops gnd_a, gnd_b are apart: the lower one only
CloudsApart(c, at_A, at_B, gnd_a, gnd_b, at_C, at_D, at_M, at_N) ==
    IF Abs(gnd_a - gnd_b) > 8
      THEN IF gnd_a < gnd_b THEN SensorsRead(c, NoObstacle, at_B, at_C, at_D, at_M, at_N)
                            ELSE SensorsRead(c, at_A, NoObstacle, at_C, at_D, at_M, at_N)
      ELSE SensorsRead(c, at_A, at_B, at_C, at_D, at_M, at_N)

\* the top of the cloud at under the tail of the foot sensor s
CloudTop(c, s, at) ==
    obstacle_ground_position(c.om[at], FloorPx(c.pa.position.x) + RotX(s.x2, s.y2, c.pa.movmode),
                             FloorPx(c.pa.position.y) + RotY(s.x2, s.y2, c.pa.movmode), GD_DOWN)

\* A, B: special logic when both are clouds and A != B
TwoClouds(c, at_A, at_B, at_C, at_D, at_M, at_N) ==
    IF /\ at_A # NoObstacle /\ at_B # NoObstacle /\ at_A # at_B
       /\ ~obstacle_is_solid(c.om[at_A]) /\ ~obstacle_is_solid(c.om[at_B])
       /\ c.pa.movmode = MM_FLOOR
      THEN CloudsApart(c, at_A, at_B, CloudTop(c, sensor_A(c.pa), at_A), CloudTop(c, sensor_B(c.pa), at_B),
                       at_C, at_D, at_M, at_N)
      ELSE SensorsRead(c, at_A, at_B, at_C, at_D, at_M, at_N)

\* the obstacle under sensor s of the actor
SensorAt(c, s, enabled) == sensor_check(s, enabled, c.pa.position, c.pa.movmode, c.om)

\* a read with the sensors C and D always enabled
update_sensors_ungated(c) ==
    TwoClouds(c,
        FootCloud(c, sensor_A(c.pa), FootUpwards(c, SensorAt(c, sensor_A(c.pa), ~c.pa.midair \/ c.pa.ysp >= 0))),
        FootCloud(c, sensor_B(c.pa), FootUpwards(c, SensorAt(c, sensor_B(c.pa), ~c.pa.midair \/ c.pa.ysp >= 0))),
        SolidOnly(c, SensorAt(c, sensor_C(c.pa), TRUE)),
        SolidOnly(c, SensorAt(c, sensor_D(c.pa), TRUE)),
        SolidOnly(c, SensorAt(c, sensor_M(c.pa), IF c.pa.midair THEN c.pa.xsp < 0 ELSE c.pa.gsp < 0)),
        SolidOnly(c, SensorAt(c, sensor_N(c.pa), IF c.pa.midair THEN c.pa.xsp > 0 ELSE c.pa.gsp > 0)))

\* call update_sensors() whenever you update pa->position or pa->angle
update_sensors(c) ==
    TwoClouds(c,
        FootCloud(c, sensor_A(c.pa), FootUpwards(c, SensorAt(c, sensor_A(c.pa), ~c.pa.midair \/ c.pa.ysp >= 0))),
        FootCloud(c, sensor_B(c.pa), FootUpwards(c, SensorAt(c, sensor_B(c.pa), ~c.pa.midair \/ c.pa.ysp >= 0))),
        SolidOnly(c, SensorAt(c, sensor_C(c.pa), c.pa.midair /\ c.pa.ysp < 0)),
        SolidOnly(c, SensorAt(c, sensor_D(c.pa), c.pa.midair /\ c.pa.ysp < 0)),
        SolidOnly(c, SensorAt(c, sensor_M(c.pa), IF c.pa.midair THEN c.pa.xsp < 0 ELSE c.pa.gsp < 0)),
        SolidOnly(c, SensorAt(c, sensor_N(c.pa), IF c.pa.midair THEN c.pa.xsp > 0 ELSE c.pa.gsp > 0)))

FORCE_ANGLE(c, new_angle) == update_sensors(update_movmode([c EXCEPT !.pa.angle = new_angle]))

\* the probe point (x, y) rests on obstacle g
GroundUnder(c, g, x, y) ==
    /\ g # NoObstacle
    /\ \/ obstacle_is_solid(c.om[g])
       \/ c.pa.movmode = MM_FLOOR /\ y < obstacle_ground_position(c.om[g], x, y, GD_DOWN) + CLOUD_OFFSET
       \/ c.pa.movmode = MM_CEILING /\ y > obstacle_ground_position(c.om[g], x, y, GD_UP) - CLOUD_OFFSET
       \/ c.pa.movmode = MM_LEFTWALL /\ x > obstacle_ground_position(c.om[g], x, y, GD_LEFT) - CLOUD_OFFSET
       \/ c.pa.movmode = MM_RIGHTWALL /\ x < obstacle_ground_position(c.om[g], x, y, GD_RIGHT) + CLOUD_OFFSET

\* a probe point of the angle search rests on an obstacle
FoundGround(c, x, y) ==
    GroundUnder(c, obstaclemap_get_best_obstacle_at(c.om, x, y, x, y, c.pa.movmode), x, y)

\* the point under the actor at step i of the angle search
AnglePoint(c, search_base, i) ==
    [x |-> TruncDiv(c.pa.position.x + MulTrig(Px(search_base + i), SIN(c.pa.angle)) + PosUnit \div 2, PosUnit),
     y |-> TruncDiv(c.pa.position.y + MulTrig(Px(search_base + i), COS(c.pa.angle)) + PosUnit \div 2, PosUnit)]

\* a probe of the angle search, hoff to the side (-1 for a, 1 for b) of the point p
AngleProbe(c, hoff, p, side) ==
    [found |-> TRUE,
     x |-> TruncDiv(p.x * TrigUnit + side * hoff * COS(c.pa.angle), TrigUnit),
     y |-> TruncDiv(p.y * TrigUnit - side * hoff * SIN(c.pa.angle), TrigUnit)]

\* the probe of a side rests on an obstacle at step i of the search
AngleRests(c, hoff, search_base, i, side) ==
    FoundGround(c, AngleProbe(c, hoff, AnglePoint(c, search_base, i), side).x,
                   AngleProbe(c, hoff, AnglePoint(c, search_base, i), side).y)

\* the search loop of UPDATE_ANGLE_STEP for the probe of a side: it goes down, step by
\* step, until it rests
AngleScan(c, hoff, search_base, max_iterations, side) ==
    IF \E i \in 0..(max_iterations - 1) : AngleRests(c, hoff, search_base, i, side)
      THEN AngleProbe(c, hoff,
                      AnglePoint(c, search_base,
                                 CHOOSE i \in 0..(max_iterations - 1) :
                                    /\ AngleRests(c, hoff, search_base, i, side)
                                    /\ \A j \in 0..(i - 1) : ~AngleRests(c, hoff, search_base, j, side)),
                      side)
      ELSE [found |-> FALSE, x |-> 0, y |-> 0]

\* a measure that takes any turn
AngleSlope_tolerant(c, x, y, same) ==
    IF x = 0 /\ y = 0 THEN [angle |-> c.pa.angle, dx |-> 0, dy |-> 0]
    ELSE [angle |-> SLOPE(y, x), dx |-> x, dy |-> y]

\* the angle of the displacement (x, y) between the two ground points
AngleSlope(c, x, y, same) ==
    IF x = 0 /\ y = 0 THEN [angle |-> c.pa.angle, dx |-> 0, dy |-> 0]
    ELSE IF same \/ delta_angle(SLOPE(y, x), c.pa.angle) <= 37
           THEN [angle |-> SLOPE(y, x), dx |-> x, dy |-> y]
    ELSE [angle |-> c.pa.angle, dx |-> 0, dy |-> 0]

\* the ground points under the probes a and b, on the obstacles ga and gb
AngleMeasure(c, a, b, ga, gb) ==
    IF ~(a.found /\ b.found) \/ ga = NoObstacle \/ gb = NoObstacle
      THEN [angle |-> c.pa.angle, dx |-> 0, dy |-> 0]
    ELSE IF c.pa.movmode = MM_FLOOR \/ c.pa.movmode = MM_CEILING
      THEN AngleSlope(c, b.x - a.x,
                      obstacle_ground_position(c.om[gb], b.x, b.y, GroundDir(c.pa.movmode))
                        - obstacle_ground_position(c.om[ga], a.x, a.y, GroundDir(c.pa.movmode)),
                      ga = gb)
    ELSE AngleSlope(c,
                    obstacle_ground_position(c.om[gb], b.x, b.y, GroundDir(c.pa.movmode))
                      - obstacle_ground_position(c.om[ga], a.x, a.y, GroundDir(c.pa.movmode)),
                    b.y - a.y, ga = gb)

\* the obstacles under the probes r.a and r.b
AngleProbes(c, r) ==
    AngleMeasure(c, r.a, r.b,
                 obstaclemap_get_best_obstacle_at(c.om, r.a.x, r.a.y, r.a.x, r.a.y, c.pa.movmode),
                 obstaclemap_get_best_obstacle_at(c.om, r.b.x, r.b.y, r.b.x, r.b.y, c.pa.movmode))

\* the angle measured with the probes hoff apart from the centre, and the
\* displacement (dx, dy) between the two ground points
UPDATE_ANGLE_STEP(c, hoff, search_base, max_iterations) ==
    AngleProbes(c, [a |-> AngleScan(c, hoff, search_base, max_iterations, -1),
                    b |-> AngleScan(c, hoff, search_base, max_iterations, 1)])

\* the record of a pass of the loop of UPDATE_ANGLE: the actor and the sensors it
\* started from, the half-distance hoff of the probes and the result r
AnglePass(c, hoff, current_angle, r) ==
    [pa |-> [c.pa EXCEPT !.angle = current_angle], at |-> c.at, hoff |-> hoff,
     angle |-> r.angle, dx |-> r.dx, dy |-> r.dy]

\* the condition of the loop of UPDATE_ANGLE, on the result r of a step
RECURSIVE AngleLoop(_, _, _, _)
\* a loop that goes down to the closest probes whether or not the actor was midair
AngleRetry_closest(c, hoff, min_hoff, current_angle, r) ==
    LET half_dist == distance_between_angle_sensors \div 2
        max_delta == Min((half_dist + (1 - (half_dist % 2))) * 2, SLOPE_LIMIT)
    IN  IF /\ hoff - 2 >= 1
           /\ c.at.M = NoObstacle /\ c.at.N = NoObstacle
           /\ \/ r.dx < -max_delta \/ r.dx > max_delta
              \/ r.dy < -max_delta \/ r.dy > max_delta
              \/ delta_angle(r.angle, current_angle) > 20
          THEN AngleLoop([c EXCEPT !.tr.passes = Append(@, AnglePass(c, hoff, current_angle, r))],
                         hoff - 2, min_hoff, current_angle)
          ELSE [c EXCEPT !.pa.angle = r.angle,
                         !.tr.passes = Append(@, AnglePass(c, hoff, current_angle, r))]

AngleRetry(c, hoff, min_hoff, current_angle, r) ==
    LET half_dist == distance_between_angle_sensors \div 2
        max_delta == Min((half_dist + (1 - (half_dist % 2))) * 2, SLOPE_LIMIT)
    IN  IF /\ hoff - 2 >= min_hoff
           /\ c.at.M = NoObstacle /\ c.at.N = NoObstacle
           /\ \/ r.dx < -max_delta \/ r.dx > max_delta
              \/ r.dy < -max_delta \/ r.dy > max_delta
              \/ delta_angle(r.angle, current_angle) > 20
          THEN AngleLoop([c EXCEPT !.tr.passes = Append(@, AnglePass(c, hoff, current_angle, r))],
                         hoff - 2, min_hoff, current_angle)
          ELSE [c EXCEPT !.pa.angle = r.angle,
                         !.tr.passes = Append(@, AnglePass(c, hoff, current_angle, r))]

\* the loop of UPDATE_ANGLE: measure again with closer probes while the result is
\* not plausible
AngleLoop(c, hoff, min_hoff, current_angle) ==
    AngleRetry(c, hoff, min_hoff, current_angle,
               UPDATE_ANGLE_STEP([c EXCEPT !.pa.angle = current_angle], hoff,
                                 sensor_A(c.pa).y2 - 1, (sensor_A(c.pa).y2 - sensor_A(c.pa).y1) * 3))

\* compute the current pa->angle
UPDATE_ANGLE(c) ==
    LET half_dist == distance_between_angle_sensors \div 2
        hoff == half_dist + (1 - (half_dist % 2))
        min_hoff == IF c.pa.was_midair THEN 3 ELSE 1
    IN  AngleLoop(c, hoff, min_hoff, c.pa.angle)

SET_AUTO_ANGLE(c) == update_sensors(update_movmode(UPDATE_ANGLE(c)))

(***************************************************************************)
(* run_simulation, section by section                                      *)
(***************************************************************************)
\* the fall of a dead actor without the limit of topyspeed
Death_unlimited(c, dt) ==
    LET ysp == c.pa.ysp + Dv(c.m.grv, dt)
    IN  [c EXCEPT !.pa.ysp = ysp,
                  !.pa.position.y = @ + Ds(ysp, dt),
                  !.pa.facing_right = TRUE]

Death(c, dt) ==
    LET ysp == Min(c.pa.ysp + Dv(c.m.grv, dt), c.m.topyspeed)
    IN  [c EXCEPT !.pa.ysp = ysp,
                  !.pa.position.y = @ + Ds(ysp, dt),
                  !.pa.facing_right = TRUE]

GettingHit(c) ==
    IF c.pa.state = PAS_GETTINGHIT
      THEN [c EXCEPT !.in = input_reset(@),
                     !.pa.facing_right = IF ~nearly_zero(c.pa.xsp) THEN c.pa.xsp < 0 ELSE @]
      ELSE c

Waiting(c, dt) ==
    LET d == [c EXCEPT !.tr.wait_state = c.pa.state]
    IN  IF c.pa.state = PAS_STOPPED
          THEN [d EXCEPT !.pa.wait_timer = @ + dt,
                         !.pa.state = IF c.pa.wait_timer + dt >= c.m.waittime THEN PAS_WAITING ELSE @]
          ELSE [d EXCEPT !.pa.wait_timer = 0]

Winning(c) ==
    LET threshold == 60 * VelUnit
        lim == RoundDiv(67 * c.m.capspeed, 100)
        gsp == clip(c.pa.gsp, -lim, lim)
        st == IF c.pa.state = PAS_ROLLING THEN PAS_BRAKING ELSE c.pa.state
        in0 == input_reset(c.in)
        in1 == IF gsp > threshold THEN input_simulate_button_down(in0, IB_LEFT)
               ELSE IF gsp < -threshold THEN input_simulate_button_down(in0, IB_RIGHT)
               ELSE input_disable(in0)
    IN  IF c.pa.winning_pose
          THEN [c EXCEPT !.in = in1,
                         !.pa.gsp = gsp,
                         !.pa.state = IF ~c.pa.midair /\ Abs(gsp) < c.m.walkthreshold
                                        THEN PAS_WINNING ELSE st]
          ELSE c

\* the lock that leaves the buttons alone
HorizontalControlLock_open(c, dt) ==
    LET a == c.pa
    IN  IF a.hlock_timer > 0
          THEN [c EXCEPT !.pa.hlock_timer = Max(a.hlock_timer - dt, 0),
                         !.pa.facing_right =
                             IF ~a.midair /\ ~nearly_zero(a.gsp) THEN a.gsp > 0
                             ELSE IF a.midair /\ ~nearly_zero(a.xsp) THEN a.xsp > 0
                             ELSE @]
          ELSE c

HorizontalControlLock(c, dt) ==
    LET a == c.pa
    IN  IF a.hlock_timer > 0
          THEN [c EXCEPT !.pa.hlock_timer = Max(a.hlock_timer - dt, 0),
                         !.in = input_simulate_button_up(input_simulate_button_up(@, IB_LEFT), IB_RIGHT),
                         !.pa.facing_right =
                             IF ~a.midair /\ ~nearly_zero(a.gsp) THEN a.gsp > 0
                             ELSE IF a.midair /\ ~nearly_zero(a.xsp) THEN a.xsp > 0
                             ELSE @]
          ELSE c

Facing(c) ==
    LET a == c.pa
    IN  IF a.state # PAS_ROLLING /\ (~nearly_zero(a.gsp) \/ ~nearly_zero(a.xsp))
          THEN IF (a.gsp > 0 \/ a.midair) /\ input_button_down(c.in, IB_RIGHT)
                 THEN [c EXCEPT !.pa.facing_right = TRUE]
               ELSE IF (a.gsp < 0 \/ a.midair) /\ input_button_down(c.in, IB_LEFT)
                 THEN [c EXCEPT !.pa.facing_right = FALSE]
               ELSE c
          ELSE c

\* walking & running: slope factor
SlopeFactor(c, dt) ==
    LET a == c.pa
    IN  IF Abs(a.gsp) >= c.m.walkthreshold \/ Abs(SIN(a.angle)) >= 70700
          THEN [c EXCEPT !.pa.gsp = @ + Dv(MulTrig(c.m.slp, -SIN(a.angle)), dt)]
          ELSE c

\* the deceleration taken for the acceleration
Acceleration_dec(c, dt) ==
    LET a == c.pa
        R == input_button_down(c.in, IB_RIGHT)
        L == input_button_down(c.in, IB_LEFT)
        up == Min(a.gsp + Dv(c.m.dec, dt), c.m.topspeed)
        down == Max(a.gsp - Dv(c.m.dec, dt), -c.m.topspeed)
    IN  IF R /\ ~L /\ a.gsp >= 0 /\ a.gsp < c.m.topspeed
          THEN [c EXCEPT !.pa.gsp = up, !.pa.state = IF up = c.m.topspeed THEN PAS_RUNNING ELSE PAS_WALKING]
        ELSE IF L /\ ~R /\ a.gsp <= 0 /\ a.gsp > -c.m.topspeed
          THEN [c EXCEPT !.pa.gsp = down, !.pa.state = IF down = -c.m.topspeed THEN PAS_RUNNING ELSE PAS_WALKING]
        ELSE c

\* walking & running: acceleration
Acceleration(c, dt) ==
    LET a == c.pa
        R == input_button_down(c.in, IB_RIGHT)
        L == input_button_down(c.in, IB_LEFT)
        up == a.gsp + Dv(c.m.acc, dt)
        down == a.gsp - Dv(c.m.acc, dt)
    IN  IF R /\ ~L /\ a.gsp >= 0
          THEN IF a.gsp < c.m.topspeed
                 THEN IF up >= c.m.topspeed
                        THEN [c EXCEPT !.pa.gsp = c.m.topspeed, !.pa.state = PAS_RUNNING]
                      ELSE IF ~(a.state = PAS_PUSHING /\ a.facing_right)
                        THEN [c EXCEPT !.pa.gsp = up, !.pa.state = PAS_WALKING]
                      ELSE [c EXCEPT !.pa.gsp = up]
                 ELSE c
        ELSE IF L /\ ~R /\ a.gsp <= 0
          THEN IF a.gsp > -c.m.topspeed
                 THEN IF down <= -c.m.topspeed
                        THEN [c EXCEPT !.pa.gsp = -c.m.topspeed, !.pa.state = PAS_RUNNING]
                      ELSE IF ~(a.state = PAS_PUSHING /\ ~a.facing_right)
                        THEN [c EXCEPT !.pa.gsp = down, !.pa.state = PAS_WALKING]
                      ELSE [c EXCEPT !.pa.gsp = down]
                 ELSE c
        ELSE c

\* walking & running: deceleration
Deceleration(c, dt) ==
    LET a == c.pa
        R == input_button_down(c.in, IB_RIGHT)
        L == input_button_down(c.in, IB_LEFT)
        up == a.gsp + Dv(c.m.dec, dt)
        down == a.gsp - Dv(c.m.dec, dt)
    IN  IF R /\ a.gsp < 0
          THEN IF up >= 0
                 THEN [c EXCEPT !.pa.gsp = 0, !.pa.state = PAS_STOPPED]
               ELSE IF Abs(up) >= c.m.brakingthreshold /\ a.movmode = MM_FLOOR
                 THEN [c EXCEPT !.pa.gsp = up, !.pa.state = PAS_BRAKING]
               ELSE [c EXCEPT !.pa.gsp = up]
        ELSE IF L /\ a.gsp > 0
          THEN IF down <= 0
                 THEN [c EXCEPT !.pa.gsp = 0, !.pa.state = PAS_STOPPED]
               ELSE IF Abs(down) >= c.m.brakingthreshold /\ a.movmode = MM_FLOOR
                 THEN [c EXCEPT !.pa.gsp = down, !.pa.state = PAS_BRAKING]
               ELSE [c EXCEPT !.pa.gsp = down]
        ELSE c

\* walking & running: braking, or else friction
BrakingOrFriction(c, dt) ==
    LET a == c.pa
        R == input_button_down(c.in, IB_RIGHT)
        L == input_button_down(c.in, IB_LEFT)
        brk == MulTrig(c.m.frc, (3 * TrigUnit) \div 2 + 3 * Abs(SIN(a.angle)))
    IN  IF a.state = PAS_BRAKING
          THEN IF Abs(a.gsp) <= Dv(brk, dt)
                 THEN [c EXCEPT !.pa.gsp = 0, !.pa.state = PAS_STOPPED]
                 ELSE [c EXCEPT !.pa.gsp = @ - sign(a.gsp) * Dv(brk, dt)]
        ELSE IF ~L /\ ~R
          THEN IF Abs(a.gsp) <= Dv(c.m.frc, dt)
                 THEN [c EXCEPT !.pa.gsp = 0, !.pa.state = PAS_STOPPED]
                 ELSE [c EXCEPT !.pa.gsp = @ - sign(a.gsp) * Dv(c.m.frc, dt)]
        ELSE c

\* walking & running: animation issues
AnimationIssues(c) ==
    LET a == c.pa
        R == input_button_down(c.in, IB_RIGHT)
        L == input_button_down(c.in, IB_LEFT)
    IN  IF Abs(a.gsp) < c.m.walkthreshold
          THEN IF a.state = PAS_PUSHING /\ ~L /\ ~R THEN [c EXCEPT !.pa.state = PAS_STOPPED]
               ELSE IF a.state \in {PAS_PUSHING, PAS_LOOKINGUP, PAS_DUCKING} THEN c
               ELSE IF L \/ R
                 THEN [c EXCEPT !.pa.state = IF L /\ R THEN PAS_STOPPED ELSE PAS_WALKING]
               ELSE IF a.state # PAS_WAITING THEN [c EXCEPT !.pa.state = PAS_STOPPED]
               ELSE IF (a.state = PAS_STOPPED \/ a.state = PAS_WAITING) /\ ~nearly_zero(a.gsp)
                 THEN [c EXCEPT !.pa.state = PAS_WALKING]
               ELSE c
          ELSE IF a.state \in {PAS_STOPPED, PAS_WAITING, PAS_LEDGE, PAS_WALKING, PAS_RUNNING,
                               PAS_DUCKING, PAS_LOOKINGUP}
                 THEN [c EXCEPT !.pa.state = WALKING_OR_RUNNING(a, c.m)]
               ELSE IF a.state = PAS_PUSHING THEN [c EXCEPT !.pa.state = PAS_WALKING]
               ELSE c

WalkingAndRunning(c, dt) ==
    IF ~c.pa.midair /\ c.pa.state # PAS_ROLLING /\ c.pa.state # PAS_CHARGING
      THEN AnimationIssues(BrakingOrFriction(Deceleration(Acceleration(SlopeFactor(c, dt), dt), dt), dt))
      ELSE c

LookingUpAndCrouchingDown(c) ==
    LET a == c.pa
    IN  IF ~a.midair /\ a.state \notin {PAS_PUSHING, PAS_ROLLING, PAS_CHARGING} /\ nearly_zero(a.gsp)
          THEN IF input_button_down(c.in, IB_DOWN) THEN [c EXCEPT !.pa.state = PAS_DUCKING]
               ELSE IF input_button_down(c.in, IB_UP) THEN [c EXCEPT !.pa.state = PAS_LOOKINGUP]
               ELSE c
          ELSE c

Springing(c) ==
    IF c.pa.state = PAS_SPRINGING /\ c.pa.midair /\ c.pa.ysp > 0
      THEN [c EXCEPT !.pa.state = PAS_WALKING]
      ELSE c

Breathing(c, dt) ==
    IF c.pa.breathe_timer > 0
      THEN [c EXCEPT !.pa.breathe_timer = @ - dt, !.pa.state = PAS_BREATHING]
    ELSE IF c.pa.state = PAS_BREATHING /\ c.pa.midair
      THEN [c EXCEPT !.pa.breathe_timer = 0, !.pa.state = PAS_WALKING]
    ELSE c

\* the side faced on a ledge swapped
BalancingOnLedges_swapped(c) ==
    LET a == c.pa
        s == IF c.at.A # NoObstacle THEN sensor_A(a) ELSE sensor_B(a)
        x == TruncPx(a.position.x)
        y == TruncPx(a.position.y) + s.y2 + 8
        nothing == obstaclemap_get_best_obstacle_at(c.om, x, y, x, y, a.movmode) = NoObstacle
    IN  IF ~a.midair /\ a.movmode = MM_FLOOR /\ nearly_zero(a.gsp)
           /\ ~(a.state = PAS_LEDGE \/ a.state = PAS_PUSHING)
          THEN IF c.at.A # NoObstacle /\ c.at.B = NoObstacle /\ nothing
                 THEN [c EXCEPT !.pa.state = PAS_LEDGE, !.pa.facing_right = FALSE]
               ELSE IF c.at.A = NoObstacle /\ c.at.B # NoObstacle /\ nothing
                 THEN [c EXCEPT !.pa.state = PAS_LEDGE, !.pa.facing_right = TRUE]
               ELSE c
          ELSE c

BalancingOnLedges(c) ==
    LET a == c.pa
        s == IF c.at.A # NoObstacle THEN sensor_A(a) ELSE sensor_B(a)
        x == TruncPx(a.position.x)
        y == TruncPx(a.position.y) + s.y2 + 8
        nothing == obstaclemap_get_best_obstacle_at(c.om, x, y, x, y, a.movmode) = NoObstacle
    IN  IF ~a.midair /\ a.movmode = MM_FLOOR /\ nearly_zero(a.gsp)
           /\ ~(a.state = PAS_LEDGE \/ a.state = PAS_PUSHING)
          THEN IF c.at.A # NoObstacle /\ c.at.B = NoObstacle /\ nothing
                 THEN [c EXCEPT !.pa.state = PAS_LEDGE, !.pa.facing_right = TRUE]
               ELSE IF c.at.A = NoObstacle /\ c.at.B # NoObstacle /\ nothing
                 THEN [c EXCEPT !.pa.state = PAS_LEDGE, !.pa.facing_right = FALSE]
               ELSE c
          ELSE c

StartRolling(c) ==
    LET a == c.pa
    IN  IF ~a.midair /\ (a.state = PAS_WALKING \/ a.state = PAS_RUNNING)
           /\ Abs(a.gsp) >= c.m.rollthreshold /\ input_button_down(c.in, IB_DOWN)
          THEN [c EXCEPT !.pa.state = PAS_ROLLING]
          ELSE c

\* the roll ended as soon as DOWN is released
Roll_released(c, dt) ==
    LET a == c.pa
        sn == SIN(a.angle)
        rolled(g) ==
            [c EXCEPT !.pa.gsp = g,
                      !.pa.state = IF Abs(g) < c.m.unrollthreshold \/ ~input_button_down(c.in, IB_DOWN)
                                     THEN PAS_STOPPED ELSE @,
                      !.pa.facing_right = IF ~nearly_zero(g) THEN g > 0 ELSE @]
        friction(g) ==
            rolled(IF Abs(g) > Dv(c.m.rollfrc, dt) THEN g - sign(g) * Dv(c.m.rollfrc, dt) ELSE 0)
        deceleration(g) ==
            friction(IF input_button_down(c.in, IB_RIGHT) /\ g < 0 THEN Min(0, g + Dv(c.m.rolldec, dt))
                     ELSE IF input_button_down(c.in, IB_LEFT) /\ g > 0 THEN Max(0, g - Dv(c.m.rolldec, dt))
                     ELSE g)
    IN  IF ~a.midair /\ a.state = PAS_ROLLING
          THEN deceleration(IF (a.gsp >= 0 /\ sn >= 0) \/ (a.gsp <= 0 /\ sn <= 0)
                              THEN a.gsp + Dv(MulTrig(c.m.rolluphillslp, -sn), dt)
                              ELSE a.gsp + Dv(MulTrig(c.m.rolldownhillslp, -sn), dt))
          ELSE c

Roll(c, dt) ==
    LET a == c.pa
        sn == SIN(a.angle)
        rolled(g) ==
            [c EXCEPT !.pa.gsp = g,
                      !.pa.state = IF Abs(g) < c.m.unrollthreshold THEN PAS_STOPPED ELSE @,
                      !.pa.facing_right = IF ~nearly_zero(g) THEN g > 0 ELSE @]
        friction(g) ==
            rolled(IF Abs(g) > Dv(c.m.rollfrc, dt) THEN g - sign(g) * Dv(c.m.rollfrc, dt) ELSE 0)
        deceleration(g) ==
            friction(IF input_button_down(c.in, IB_RIGHT) /\ g < 0 THEN Min(0, g + Dv(c.m.rolldec, dt))
                     ELSE IF input_button_down(c.in, IB_LEFT) /\ g > 0 THEN Max(0, g - Dv(c.m.rolldec, dt))
                     ELSE g)
    IN  IF ~a.midair /\ a.state = PAS_ROLLING
          THEN deceleration(IF (a.gsp >= 0 /\ sn >= 0) \/ (a.gsp <= 0 /\ sn <= 0)
                              THEN a.gsp + Dv(MulTrig(c.m.rolluphillslp, -sn), dt)
                              ELSE a.gsp + Dv(MulTrig(c.m.rolldownhillslp, -sn), dt))
          ELSE c

Rolling(c, dt) == Roll(StartRolling(c), dt)

BeginToCharge(c) ==
    IF /\ c.pa.state = PAS_DUCKING
       /\ input_button_down(c.in, IB_DOWN) /\ input_button_pressed(c.in, IB_FIRE1)
       /\ ~nearly_zero(c.m.chrg)
      THEN [c EXCEPT !.pa.state = PAS_CHARGING]
      ELSE c

\* the release taking the intensity stored by the previous tick
Charging_stale(c, dt) ==
    LET a == c.pa
        ci == IF input_button_pressed(c.in, IB_FIRE1) THEN Min(TrigUnit, a.charge_intensity + TrigUnit \div 4)
              ELSE IF Abs(a.charge_intensity) >= c.m.chrgthreshold
                THEN MulTrig(a.charge_intensity, 99951 - RoundDiv(184539 * dt, TimeUnit))
              ELSE a.charge_intensity
        s == IF a.facing_right THEN 1 ELSE -1
    IN  IF a.state = PAS_CHARGING
          THEN IF ~input_button_down(c.in, IB_DOWN)
                 THEN [c EXCEPT !.pa.gsp = MulTrig(s * c.m.chrg, 67000 + RoundDiv(33 * a.charge_intensity, 100)),
                                !.pa.state = PAS_ROLLING,
                                !.pa.charge_intensity = 0,
                                !.pa.jump_lock_timer = (3 * TimeUnit) \div 32,
                                !.tr.released = <<ci>>]
                 ELSE [c EXCEPT !.pa.gsp = 0, !.pa.charge_intensity = ci]
          ELSE c

Charging(c, dt) ==
    LET a == c.pa
        ci == IF input_button_pressed(c.in, IB_FIRE1) THEN Min(TrigUnit, a.charge_intensity + TrigUnit \div 4)
              ELSE IF Abs(a.charge_intensity) >= c.m.chrgthreshold
                THEN MulTrig(a.charge_intensity, 99951 - RoundDiv(184539 * dt, TimeUnit))
              ELSE a.charge_intensity
        s == IF a.facing_right THEN 1 ELSE -1
    IN  IF a.state = PAS_CHARGING
          THEN IF ~input_button_down(c.in, IB_DOWN)
                 THEN [c EXCEPT !.pa.gsp = MulTrig(s * c.m.chrg, 67000 + RoundDiv(33 * ci, 100)),
                                !.pa.state = PAS_ROLLING,
                                !.pa.charge_intensity = 0,
                                !.pa.jump_lock_timer = (3 * TimeUnit) \div 32,
                                !.tr.released = <<ci>>]
                 ELSE [c EXCEPT !.pa.gsp = 0, !.pa.charge_intensity = ci]
          ELSE c

ChargeAndRelease(c, dt) == Charging(BeginToCharge(c), dt)

\* the ground speed taken as horizontal whatever the angle
GroundSpeed_flat(c) ==
    LET gsp == clip(c.pa.gsp, -c.m.capspeed, c.m.capspeed)
    IN  IF ~c.pa.midair
          THEN [c EXCEPT !.pa.gsp = gsp,
                         !.pa.xsp = gsp,
                         !.pa.ysp = 0,
                         !.tr.gs = <<gsp, c.pa.angle>>]
          ELSE c

GroundSpeed(c) ==
    LET gsp == clip(c.pa.gsp, -c.m.capspeed, c.m.capspeed)
    IN  IF ~c.pa.midair
          THEN [c EXCEPT !.pa.gsp = gsp,
                         !.pa.xsp = MulTrig(gsp, COS(c.pa.angle)),
                         !.pa.ysp = MulTrig(gsp, -SIN(c.pa.angle)),
                         !.tr.gs = <<gsp, c.pa.angle>>]
          ELSE c

\* the falling speed not limited
FallingOff_unlimited(c, dt) ==
    IF c.pa.midair
      THEN [c EXCEPT !.pa.ysp = @ + Dv(IF c.pa.state # PAS_GETTINGHIT THEN c.m.grv ELSE RoundDiv(c.m.grv * 6, 7), dt)]
      ELSE c

\* the air drag without its term in dt
FallingOff_dragging(c, dt) ==
    LET a == c.pa
        R == input_button_down(c.in, IB_RIGHT)
        L == input_button_down(c.in, IB_LEFT)
        x1 == IF R /\ ~L /\ a.xsp < c.m.topspeed THEN Min(a.xsp + Dv(c.m.air, dt), c.m.topspeed) ELSE a.xsp
        x2 == IF L /\ ~R /\ x1 > -c.m.topspeed THEN Max(x1 - Dv(c.m.air, dt), -c.m.topspeed) ELSE x1
        drag == /\ a.state # PAS_GETTINGHIT
                /\ a.ysp < 0 /\ a.ysp > c.m.airdragthreshold
                /\ Abs(x2) >= c.m.airdragxthreshold
        x3 == IF drag THEN MulTrig(x2, c.m.airdrag_coefficient[2]) ELSE x2
        grv == IF a.state # PAS_GETTINGHIT THEN c.m.grv ELSE RoundDiv(c.m.grv * 6, 7)
    IN  IF a.midair
          THEN [c EXCEPT !.pa.xsp = x3, !.pa.ysp = Min(a.ysp + Dv(grv, dt), c.m.topyspeed)]
          ELSE c

FallingOff(c, dt) ==
    LET a == c.pa
        R == input_button_down(c.in, IB_RIGHT)
        L == input_button_down(c.in, IB_LEFT)
        x1 == IF R /\ ~L /\ a.xsp < c.m.topspeed THEN Min(a.xsp + Dv(c.m.air, dt), c.m.topspeed) ELSE a.xsp
        x2 == IF L /\ ~R /\ x1 > -c.m.topspeed THEN Max(x1 - Dv(c.m.air, dt), -c.m.topspeed) ELSE x1
        drag == /\ a.state # PAS_GETTINGHIT
                /\ a.ysp < 0 /\ a.ysp > c.m.airdragthreshold
                /\ Abs(x2) >= c.m.airdragxthreshold
        x3 == IF drag THEN MulTrig(x2, Dv(c.m.airdrag_coefficient[1], dt) + c.m.airdrag_coefficient[2]) ELSE x2
        grv == IF a.state # PAS_GETTINGHIT THEN c.m.grv ELSE RoundDiv(c.m.grv * 6, 7)
    IN  IF a.midair
          THEN [c EXCEPT !.pa.xsp = x3, !.pa.ysp = Min(a.ysp + Dv(grv, dt), c.m.topyspeed)]
          ELSE c

\* the jump reduced when moving downhill (WANT_JUMP_ATTENUATION)
Jumping_attenuated(c, dt) ==
    LET a == c.pa
        lock == Max(a.jump_lock_timer - dt, 0)
        jump == /\ a.jump_lock_timer - dt <= 0
                /\ input_button_pressed(c.in, IB_FIRE1)
                /\ \/ ~input_button_down(c.in, IB_UP) /\ ~input_button_down(c.in, IB_DOWN)
                   \/ a.state = PAS_ROLLING
                /\ ~a.touching_ceiling
        d == [c EXCEPT !.pa.jump_lock_timer = lock]
    IN  IF ~a.midair
          THEN IF jump
                 THEN FORCE_ANGLE([d EXCEPT
                          !.pa.xsp = MulTrig(c.m.jmp, SIN(a.angle)) + MulTrig(a.gsp, COS(a.angle)),
                          !.pa.ysp = MulTrig(c.m.jmp, COS(a.angle))
                                     - (IF MulTrig(a.gsp, SIN(a.angle)) < 0 THEN MulTrig(a.gsp, SIN(a.angle))
                                        ELSE MulTrig(a.gsp, SIN(a.angle)) \div 2),
                          !.pa.gsp = 0,
                          !.pa.state = PAS_JUMPING,
                          !.tr.jumped = TRUE], 0)
                 ELSE d
          ELSE IF a.state = PAS_JUMPING /\ ~input_button_down(c.in, IB_FIRE1) /\ a.ysp < c.m.jmprel
                 THEN [c EXCEPT !.pa.ysp = c.m.jmprel]
               ELSE c

\* the jump started in the air and under a ceiling as well
Jumping_anywhere(c, dt) ==
    LET a == c.pa
        lock == Max(a.jump_lock_timer - dt, 0)
        jump == /\ a.jump_lock_timer - dt <= 0
                /\ input_button_pressed(c.in, IB_FIRE1)
                /\ \/ ~input_button_down(c.in, IB_UP) /\ ~input_button_down(c.in, IB_DOWN)
                   \/ a.state = PAS_ROLLING
        d == [c EXCEPT !.pa.jump_lock_timer = lock]
    IN  IF ~a.midair \/ jump
          THEN IF jump
                 THEN FORCE_ANGLE([d EXCEPT
                          !.pa.xsp = MulTrig(c.m.jmp, SIN(a.angle)) + MulTrig(a.gsp, COS(a.angle)),
                          !.pa.ysp = MulTrig(c.m.jmp, COS(a.angle)) - MulTrig(a.gsp, SIN(a.angle)),
                          !.pa.gsp = 0,
                          !.pa.state = PAS_JUMPING,
                          !.tr.jumped = TRUE], 0)
                 ELSE d
          ELSE IF a.state = PAS_JUMPING /\ ~input_button_down(c.in, IB_FIRE1) /\ a.ysp < c.m.jmprel
                 THEN [c EXCEPT !.pa.ysp = c.m.jmprel]
               ELSE c

Jumping(c, dt) ==
    LET a == c.pa
        lock == Max(a.jump_lock_timer - dt, 0)
        jump == /\ a.jump_lock_timer - dt <= 0
                /\ input_button_pressed(c.in, IB_FIRE1)
                /\ \/ ~input_button_down(c.in, IB_UP) /\ ~input_button_down(c.in, IB_DOWN)
                   \/ a.state = PAS_ROLLING
                /\ ~a.touching_ceiling
        d == [c EXCEPT !.pa.jump_lock_timer = lock]
    IN  IF ~a.midair
          THEN IF jump
                 THEN FORCE_ANGLE([d EXCEPT
                          !.pa.xsp = MulTrig(c.m.jmp, SIN(a.angle)) + MulTrig(a.gsp, COS(a.angle)),
                          !.pa.ysp = MulTrig(c.m.jmp, COS(a.angle)) - MulTrig(a.gsp, SIN(a.angle)),
                          !.pa.gsp = 0,
                          !.pa.state = PAS_JUMPING,
                          !.tr.jumped = TRUE], 0)
                 ELSE d
          ELSE IF a.state = PAS_JUMPING /\ ~input_button_down(c.in, IB_FIRE1) /\ a.ysp < c.m.jmprel
                 THEN [c EXCEPT !.pa.ysp = c.m.jmprel]
               ELSE c

\* ceilf of the length of (dx, dy), in pixels, but no more than cap
CeilLength(dx, dy, cap) ==
    LET sub == PosUnit \div VelUnit
        ax == CeilDiv(Abs(dx), sub)
        ay == CeilDiv(Abs(dy), sub)
        enough == {n \in 0..cap : (n * VelUnit) * (n * VelUnit) >= ax * ax + ay * ay}
    IN  IF enough = {} THEN cap ELSE CHOOSE n \in enough : \A k \in enough : n <= k

\* the collision check after one increment of the motion
CheckIncrement(c, inc, sx, sy) ==
    LET M == c.at.M # NoObstacle
        N == c.at.N # NoObstacle
        CD == c.at.C # NoObstacle \/ c.at.D # NoObstacle
        mm == c.pa.movmode
    IN  CASE mm = MM_FLOOR ->
               [x |-> IF (M /\ sx < 0) \/ (N /\ sx > 0) THEN 0 ELSE inc.x,
                y |-> IF CD /\ sy < 0 THEN 0 ELSE inc.y]
          [] mm = MM_RIGHTWALL ->
               [x |-> IF CD /\ sx < 0 THEN 0 ELSE inc.x,
                y |-> IF (M /\ sy > 0) \/ (N /\ sy < 0) THEN 0 ELSE inc.y]
          [] mm = MM_CEILING ->
               [x |-> IF (M /\ sx > 0) \/ (N /\ sx < 0) THEN 0 ELSE inc.x,
                y |-> IF CD /\ sy > 0 THEN 0 ELSE inc.y]
          [] mm = MM_LEFTWALL ->
               [x |-> IF CD /\ sx > 0 THEN 0 ELSE inc.x,
                y |-> IF (M /\ sy < 0) \/ (N /\ sy > 0) THEN 0 ELSE inc.y]

RECURSIVE MoveByIncrements(_, _, _, _, _)
\* exit early, or go on with the increment ni that the collisions left
MoveNext(d, num_increments, ni, sx, sy) ==
    IF ni.x = 0 /\ ni.y = 0 THEN d
    ELSE MoveByIncrements(d, num_increments - 1, ni, sx, sy)

\* check collisions
MoveChecked(d, num_increments, inc, sx, sy) ==
    MoveNext([d EXCEPT !.tr.blocked = @ \/ CheckIncrement(d, inc, sx, sy) # inc],
             num_increments, CheckIncrement(d, inc, sx, sy), sx, sy)

\* move by small increments, checking collisions after each
MoveByIncrements(c, num_increments, inc, sx, sy) ==
    IF num_increments <= 0 THEN c
    ELSE MoveChecked(update_sensors([c EXCEPT !.pa.position.x = @ + inc.x,
                                              !.pa.position.y = @ + inc.y,
                                              !.tr.moves = @ + 1]),
                     num_increments, inc, sx, sy)

\* move using a faster method: the whole displacement at once
UpdatingThePosition_whole(c, dt) ==
    update_sensors([c EXCEPT !.pa.position.x = @ + Ds(c.pa.xsp, dt),
                             !.pa.position.y = @ + Ds(c.pa.ysp, dt),
                             !.tr.moves = 1])

\* move by small increments for a more robust collision detection
UpdatingThePosition(c, dt) ==
    LET dsx == Ds(c.pa.xsp, dt)
        dsy == Ds(c.pa.ysp, dt)
        sx == IF dsx > 0 THEN 1 ELSE IF dsx < 0 THEN -1 ELSE 0
        sy == IF dsy > 0 THEN 1 ELSE IF dsy < 0 THEN -1 ELSE 0
        max_increments == CeilDiv(Max(c.m.capspeed, c.m.topyspeed), 2 * VelUnit * TARGET_FPS)
        num_increments == CeilLength(dsx, dsy, max_increments)
        inc == IF num_increments > 0
                 THEN [x |-> RoundDiv(dsx, num_increments), y |-> RoundDiv(dsy, num_increments)]
                 ELSE [x |-> 0, y |-> 0]
    IN  MoveByIncrements(c, num_increments, inc, sx, sy)

\* stop if we land after getting hit
LandAfterGettingHit(c) ==
    IF ~c.pa.midair /\ c.pa.was_midair /\ c.pa.state = PAS_GETTINGHIT
      THEN [c EXCEPT !.pa.gsp = 0, !.pa.xsp = 0, !.pa.state = PAS_STOPPED]
      ELSE c

\* the sensors read again after the actor was moved out of a wall
WallTouch(moved, mm) ==
    IF mm = MM_FLOOR THEN update_sensors(moved) ELSE FORCE_ANGLE(moved, 0)

\* pushing whatever the button
WallPush_always(d, button, right) ==
    IF ~d.pa.midair /\ d.pa.movmode = MM_FLOOR /\ d.pa.state # PAS_ROLLING
      THEN [d EXCEPT !.pa.state = PAS_PUSHING, !.pa.facing_right = right]
      ELSE d

\* pushing a wall
WallPush(d, button, right) ==
    IF ~d.pa.midair /\ d.pa.movmode = MM_FLOOR /\ d.pa.state # PAS_ROLLING
      THEN IF input_button_down(d.in, button)
             THEN [d EXCEPT !.pa.state = PAS_PUSHING, !.pa.facing_right = right]
             ELSE [d EXCEPT !.pa.state = PAS_STOPPED]
      ELSE d

RightWall(c) ==
    LET a == c.pa
        mm == a.movmode
        s == sensor_N(a)
        w == sensor_worldpos(s, a.position, mm)
        ltx == RotX(s.x2, s.y2, mm)
        lty == RotY(s.x2, s.y2, mm)
        o == c.om[c.at.N]
        g == [c EXCEPT !.pa.gsp = IF a.gsp > 0 THEN 0 ELSE @, !.tr.wall = TRUE]
    IN  IF c.at.N = NoObstacle THEN c
        ELSE WallPush(WallTouch(
          CASE mm = MM_FLOOR ->
                 [g EXCEPT !.pa.position.x = Px(obstacle_ground_position(o, w.x2, w.y2, GD_RIGHT) - ltx - 1),
                           !.pa.xsp = Min(@, 0)]
            [] mm = MM_CEILING ->
                 [g EXCEPT !.pa.position.x = Px(obstacle_ground_position(o, w.x2, w.y2, GD_LEFT) - ltx + 1),
                           !.pa.xsp = Max(@, 0)]
            [] mm = MM_RIGHTWALL ->
                 [g EXCEPT !.pa.position.y = Px(obstacle_ground_position(o, w.x2, w.y2, GD_UP) - lty - 1),
                           !.pa.ysp = Max(@, 0)]
            [] mm = MM_LEFTWALL ->
                 [g EXCEPT !.pa.position.y = Px(obstacle_ground_position(o, w.x2, w.y2, GD_DOWN) - lty + 1),
                           !.pa.ysp = Min(@, 0)], mm), IB_RIGHT, TRUE)

LeftWall(c) ==
    LET a == c.pa
        mm == a.movmode
        s == sensor_M(a)
        w == sensor_worldpos(s, a.position, mm)
        lhx == RotX(s.x1, s.y1, mm)
        lhy == RotY(s.x1, s.y1, mm)
        o == c.om[c.at.M]
        g == [c EXCEPT !.pa.gsp = IF a.gsp < 0 THEN 0 ELSE @, !.tr.wall = TRUE]
    IN  IF c.at.M = NoObstacle THEN c
        ELSE WallPush(WallTouch(
          CASE mm = MM_FLOOR ->
                 [g EXCEPT !.pa.position.x = Px(obstacle_ground_position(o, w.x1, w.y1, GD_LEFT) - lhx + 1),
                           !.pa.xsp = Max(@, 0)]
            [] mm = MM_CEILING ->
                 [g EXCEPT !.pa.position.x = Px(obstacle_ground_position(o, w.x1, w.y1, GD_RIGHT) - lhx - 1),
                           !.pa.xsp = Min(@, 0)]
            [] mm = MM_RIGHTWALL ->
                 [g EXCEPT !.pa.position.y = Px(obstacle_ground_position(o, w.x1, w.y1, GD_DOWN) - lhy - 1),
                           !.pa.ysp = Min(@, 0)]
            [] mm = MM_LEFTWALL ->
                 [g EXCEPT !.pa.position.y = Px(obstacle_ground_position(o, w.x1, w.y1, GD_UP) - lhy + 1),
                           !.pa.ysp = Max(@, 0)], mm), IB_LEFT, FALSE)

\* the actor, its input and the obstacles under its sensors as they are at a point
\* of the tick, recorded for the properties
Seen(r, point) == [r EXCEPT !.tr[point] = [pa |-> r.pa, in |-> r.in, at |-> r.at]]

WallCollisions(c) == LeftWall(Seen(RightWall(c), "right_walled"))

\* which one is the tallest obstacle, a or b?
pick_the_best_ground(c, a, b, a_sensor, b_sensor) ==
    LET mm == c.pa.movmode
        px == TruncPx(c.pa.position.x)
        py == TruncPx(c.pa.position.y)
        ha == obstacle_ground_position(c.om[a], px + RotX(a_sensor.x2, a_sensor.y2, mm),
                                       py + RotY(a_sensor.x2, a_sensor.y2, mm), GroundDir(mm))
        hb == obstacle_ground_position(c.om[b], px + RotX(b_sensor.x2, b_sensor.y2, mm),
                                       py + RotY(b_sensor.x2, b_sensor.y2, mm), GroundDir(mm))
    IN  IF a = NoObstacle THEN "b"
        ELSE IF b = NoObstacle THEN "a"
        ELSE IF mm = MM_FLOOR \/ mm = MM_RIGHTWALL
               THEN (IF ha < hb THEN "a" ELSE "b")
               ELSE (IF ha >= hb THEN "a" ELSE "b")

CeilingDir(mm) ==
    CASE mm = MM_FLOOR -> GD_UP
      [] mm = MM_LEFTWALL -> GD_RIGHT
      [] mm = MM_CEILING -> GD_DOWN
      [] mm = MM_RIGHTWALL -> GD_LEFT

\* which one is the best ceiling, c or d?
pick_the_best_ceiling(c, cc, dd, c_sensor, d_sensor) ==
    LET mm == c.pa.movmode
        px == TruncPx(c.pa.position.x)
        py == TruncPx(c.pa.position.y)
        hc == obstacle_ground_position(c.om[cc], px + RotX(c_sensor.x1, c_sensor.y1, mm),
                                       py + RotY(c_sensor.x1, c_sensor.y1, mm), CeilingDir(mm))
        hd == obstacle_ground_position(c.om[dd], px + RotX(d_sensor.x1, d_sensor.y1, mm),
                                       py + RotY(d_sensor.x1, d_sensor.y1, mm), CeilingDir(mm))
    IN  IF cc = NoObstacle THEN "d"
        ELSE IF dd = NoObstacle THEN "c"
        ELSE IF mm = MM_FLOOR \/ mm = MM_RIGHTWALL
               THEN (IF hc >= hd THEN "c" ELSE "d")
               ELSE (IF hc < hd THEN "c" ELSE "d")

\* the actor f, its angle reset, is put right below the ceiling
CeilingBump(f, ceiling, ceiling_sensor) ==
    update_sensors([f EXCEPT !.pa.position.y =
        Px(obstacle_ground_position(f.om[ceiling],
               FloorPx(f.pa.position.x) + RotX(ceiling_sensor.x1, ceiling_sensor.y1, f.pa.movmode),
               FloorPx(f.pa.position.y) + RotY(ceiling_sensor.x1, ceiling_sensor.y1, f.pa.movmode), GD_UP)
           - RotY(ceiling_sensor.x1, ceiling_sensor.y1, f.pa.movmode) + 1)])

\* the actor d, its angle computed at the ceiling, reattaches to it
CeilingReattach(d) ==
    [d EXCEPT !.pa.gsp = IF Abs(d.pa.xsp) > -d.pa.ysp THEN -d.pa.xsp
                         ELSE d.pa.ysp * (-sign(SIN(d.pa.angle))),
              !.pa.xsp = 0, !.pa.ysp = 0, !.tr.reattached = TRUE,
              !.pa.state = IF @ # PAS_ROLLING
                             THEN (IF Abs(IF Abs(d.pa.xsp) > -d.pa.ysp THEN -d.pa.xsp
                                          ELSE d.pa.ysp * (-sign(SIN(d.pa.angle)))) >= d.m.topspeed
                                     THEN PAS_RUNNING ELSE PAS_WALKING)
                             ELSE @]

\* reattach to the ceiling, or else bump the head
CeilingTouch(d, upwards, ceiling, ceiling_sensor) ==
    IF /\ upwards
       /\ (d.pa.angle >= 160 /\ d.pa.angle <= 191) \/ (d.pa.angle >= 64 /\ d.pa.angle <= 95)
       /\ ~d.pa.midair
      THEN CeilingReattach(d)
      ELSE CeilingBump(FORCE_ANGLE([d EXCEPT !.pa.ysp = Max(@, 0)], 0), ceiling, ceiling_sensor)

\* the ceiling picked: compute the angle if moving upwards
CeilingPicked(c, best) ==
    CeilingTouch(IF c.pa.ysp < 0
                   THEN SET_AUTO_ANGLE(FORCE_ANGLE([c EXCEPT !.tr.ceiling = TRUE], 128))
                   ELSE [c EXCEPT !.tr.ceiling = TRUE],
                 c.pa.ysp < 0,
                 IF best = "c" THEN c.at.C ELSE c.at.D,
                 IF best = "c" THEN sensor_C(c.pa) ELSE sensor_D(c.pa))

CeilingCollision(c) ==
    IF c.pa.midair /\ c.pa.touching_ceiling
      THEN CeilingPicked(c, pick_the_best_ceiling(c, c.at.C, c.at.D, sensor_C(c.pa), sensor_D(c.pa)))
      ELSE c

\* how far below the feet the sticky physics looks for the ground
StickyReach(c) ==
    LET a == c.pa
        hit(w, u) == CASE a.movmode = MM_FLOOR -> obstaclemap_obstacle_exists(c.om, w.x2, w.y2 + u)
                       [] a.movmode = MM_RIGHTWALL -> obstaclemap_obstacle_exists(c.om, w.y2 + u, w.x2)
                       [] a.movmode = MM_CEILING -> obstaclemap_obstacle_exists(c.om, w.x2, w.y2 - u)
                       [] a.movmode = MM_LEFTWALL -> obstaclemap_obstacle_exists(c.om, w.y2 - u, w.x2)
        nearest(hits) == IF hits = {} THEN 12 ELSE CHOOSE u \in hits : \A v \in hits : u <= v
        scan(w) == nearest({u \in 4..11 : hit(w, u)})
    IN  IF Abs(a.xsp) > c.m.topspeed \/ a.state = PAS_ROLLING
          THEN scan(sensor_worldpos(IF a.xsp > 0 THEN sensor_B(a) ELSE sensor_A(a), a.position, a.movmode))
          ELSE 4

\* sticky physics that never locks
StickyBack_unlocked(d, ox, oy) ==
    IF d.pa.midair
      THEN SET_AUTO_ANGLE([d EXCEPT !.pa.position.x = @ - ox, !.pa.position.y = @ - oy])
      ELSE d

\* sticky physics that leaves the actor where it looked for the ground
StickyBack_kept(d, ox, oy) ==
    IF d.pa.midair
      THEN SET_AUTO_ANGLE([d EXCEPT !.pa.sticky_lock = IF d.pa.state = PAS_ROLLING THEN TRUE ELSE @])
      ELSE d

\* the actor d, moved by (ox, oy), found no ground: it is moved back
StickyBack(d, ox, oy) ==
    IF d.pa.midair
      THEN SET_AUTO_ANGLE([d EXCEPT !.pa.position.x = @ - ox, !.pa.position.y = @ - oy,
                                    !.pa.sticky_lock = IF d.pa.state = PAS_ROLLING THEN TRUE ELSE @])
      ELSE d

\* the actor is moved by (ox, oy) towards the ground
StickyProbe(c, ox, oy) ==
    StickyBack(SET_AUTO_ANGLE([c EXCEPT !.pa.position.x = @ + ox, !.pa.position.y = @ + oy,
                                        !.pa.midair = FALSE, !.tr.sticky = TRUE]), ox, oy)

\* the offset u, in pixels, in the direction of the ground
StickyOffset(c, u) ==
    StickyProbe([c EXCEPT !.tr.reach = <<u>>],
        CASE c.pa.movmode = MM_RIGHTWALL -> Px(u) [] c.pa.movmode = MM_LEFTWALL -> -Px(u) [] OTHER -> 0,
        CASE c.pa.movmode = MM_FLOOR -> Px(u) [] c.pa.movmode = MM_CEILING -> -Px(u) [] OTHER -> 0)

StickyPhysics(c) ==
    LET a == c.pa
    IN  IF a.midair /\ (\/ ~a.was_midair /\ a.state \notin {PAS_JUMPING, PAS_GETTINGHIT, PAS_SPRINGING,
                                                            PAS_DROWNED, PAS_DEAD}
                        \/ a.state = PAS_ROLLING /\ ~a.sticky_lock)
          THEN StickyOffset(c, StickyReach(c))
        ELSE IF ~a.midair /\ a.state = PAS_ROLLING
          THEN [c EXCEPT !.pa.sticky_lock = FALSE]
        ELSE c

\* the landing: gsp is xsp, the actor walks or unrolls
GroundLand(c, d) ==
    IF ~(c.pa.was_midair /\ c.pa.movmode = MM_FLOOR) THEN d
    ELSE IF c.pa.state = PAS_ROLLING
      THEN IF c.pa.midair_timer >= TimeUnit \div 5 /\ ~input_button_down(c.in, IB_DOWN)
             THEN [d EXCEPT !.pa.gsp = c.pa.xsp,
                            !.pa.state = IF Abs(c.pa.xsp) >= c.m.topspeed THEN PAS_RUNNING ELSE PAS_WALKING,
                            !.pa.facing_right = IF ~nearly_zero(c.pa.xsp) THEN c.pa.xsp > 0 ELSE @]
             ELSE [d EXCEPT !.pa.gsp = c.pa.xsp]
    ELSE [d EXCEPT !.pa.gsp = c.pa.xsp,
                   !.pa.state = IF Abs(c.pa.xsp) >= c.m.topspeed THEN PAS_RUNNING ELSE PAS_WALKING]

\* the actor is put on the ground at gp, offset pixels below its centre
GroundSnap(c, gp, offset) ==
    SET_AUTO_ANGLE(GroundLand(c,
        CASE c.pa.movmode = MM_LEFTWALL -> [c EXCEPT !.pa.position.x = Px(gp + offset)]
          [] c.pa.movmode = MM_CEILING -> [c EXCEPT !.pa.position.y = Px(gp + offset)]
          [] c.pa.movmode = MM_RIGHTWALL -> [c EXCEPT !.pa.position.x = Px(gp - offset)]
          [] c.pa.movmode = MM_FLOOR -> [c EXCEPT !.pa.position.y = Px(gp - offset)]))

\* the ground under the sensor gs
GroundPicked(c, ground, gs) ==
    GroundSnap(c, obstacle_ground_position(c.om[ground],
                      TruncPx(c.pa.position.x) + RotX(gs.x2, gs.y2, c.pa.movmode),
                      TruncPx(c.pa.position.y) + RotY(gs.x2, gs.y2, c.pa.movmode), GroundDir(c.pa.movmode)),
               gs.y2 - 1)

\* the ground picked of A and B
GroundBest(c, best) ==
    GroundPicked(c, IF best = "a" THEN c.at.A ELSE c.at.B,
                    IF best = "a" THEN sensor_A(c.pa) ELSE sensor_B(c.pa))

StickToTheGround(c) ==
    IF ~c.pa.midair /\ ~(c.pa.state \in {PAS_JUMPING, PAS_GETTINGHIT, PAS_SPRINGING, PAS_DROWNED, PAS_DEAD}
                         /\ c.pa.ysp < 0)
      THEN GroundBest(c, pick_the_best_ground(c, c.at.A, c.at.B, sensor_A(c.pa), sensor_B(c.pa)))
      ELSE c

\* reacquisition of the ground with the gentle law in every band of angles
ReacquisitionOfTheGround_flat(c) ==
    IF ~c.pa.midair /\ c.pa.was_midair
      THEN [c EXCEPT !.pa.gsp = c.pa.xsp, !.pa.xsp = 0, !.pa.ysp = 0, !.tr.landed = TRUE,
                     !.pa.state = IF @ # PAS_ROLLING
                                    THEN WALKING_OR_RUNNING([c.pa EXCEPT !.gsp = c.pa.xsp], c.m)
                                    ELSE @]
      ELSE c

ReacquisitionOfTheGround(c) ==
    LET a == c.pa
        ang == a.angle
        s == -sign(SIN(ang))
        gsp == IF ang >= 240 \/ ang <= 15 THEN a.xsp
               ELSE IF (ang >= 224 /\ ang <= 239) \/ (ang >= 16 /\ ang <= 31)
                 THEN (IF Abs(a.xsp) > a.ysp THEN a.xsp ELSE RoundDiv(a.ysp, 2) * s)
               ELSE IF (ang >= 192 /\ ang <= 223) \/ (ang >= 32 /\ ang <= 63)
                 THEN (IF Abs(a.xsp) > a.ysp THEN a.xsp ELSE a.ysp * s)
               ELSE a.gsp
        d == [c EXCEPT !.pa.gsp = gsp, !.pa.xsp = 0, !.pa.ysp = 0, !.tr.landed = TRUE]
    IN  IF ~a.midair /\ a.was_midair
          THEN [d EXCEPT !.pa.state = IF @ # PAS_ROLLING THEN WALKING_OR_RUNNING(d.pa, c.m) ELSE @]
          ELSE c

\* falling off with the steep band of angles open at both ends
FallingOffWallsAndCeilings_open(c) ==
    LET a == c.pa
        d == [c EXCEPT !.pa.hlock_timer = TimeUnit \div 2, !.tr.falloff = TRUE]
    IN  IF ~a.midair /\ a.movmode # MM_FLOOR /\ a.hlock_timer = 0 /\ Abs(a.gsp) < c.m.falloffthreshold
          THEN IF a.angle > 64 /\ a.angle < 192
                 THEN FORCE_ANGLE([d EXCEPT !.pa.gsp = 0], 0)
                 ELSE d
          ELSE c

FallingOffWallsAndCeilings(c) ==
    LET a == c.pa
        d == [c EXCEPT !.pa.hlock_timer = TimeUnit \div 2, !.tr.falloff = TRUE]
    IN  IF ~a.midair /\ a.movmode # MM_FLOOR /\ a.hlock_timer = 0 /\ Abs(a.gsp) < c.m.falloffthreshold
          THEN IF a.angle >= 64 /\ a.angle <= 192
                 THEN FORCE_ANGLE([d EXCEPT !.pa.gsp = 0], 0)
                 ELSE d
          ELSE c

\* in the air: gsp is 0 while moving upwards
MiscAir(d) == [d EXCEPT !.pa.gsp = IF d.pa.ysp < 0 THEN 0 ELSE @]

\* an airborne actor that keeps its angle
Misc_tilted(c, dt) ==
    IF c.pa.midair
      THEN MiscAir([c EXCEPT !.pa.midair_timer = @ + dt])
      ELSE [c EXCEPT !.pa.midair_timer = 0]

\* reset the angle & update the midair_timer
Misc(c, dt) ==
    IF c.pa.midair
      THEN MiscAir(FORCE_ANGLE([c EXCEPT !.pa.midair_timer = @ + dt], 0))
      ELSE [c EXCEPT !.pa.midair_timer = 0]

\* Stopped forgotten in the list of the states to fix
FixInvalidStates_forgetful(c) ==
    LET a == c.pa
    IN  IF a.midair
          THEN IF a.state \in {PAS_PUSHING, PAS_WAITING, PAS_DUCKING, PAS_LOOKINGUP}
                 THEN [c EXCEPT !.pa.state = WALKING_OR_RUNNING(a, c.m)]
                 ELSE c
          ELSE IF a.state = PAS_WALKING /\ nearly_zero(a.gsp)
                 THEN [c EXCEPT !.pa.state = PAS_STOPPED]
                 ELSE c

FixInvalidStates(c) ==
    LET a == c.pa
    IN  IF a.midair
          THEN IF a.state \in {PAS_PUSHING, PAS_STOPPED, PAS_WAITING, PAS_DUCKING, PAS_LOOKINGUP}
                 THEN [c EXCEPT !.pa.state = WALKING_OR_RUNNING(a, c.m)]
                 ELSE c
          ELSE IF a.state = PAS_WALKING /\ nearly_zero(a.gsp)
                 THEN [c EXCEPT !.pa.state = PAS_STOPPED]
                 ELSE c

NoTrace ==
    [wait_state |-> "none", gs |-> <<>>, jumped |-> FALSE, wall |-> FALSE, landed |-> FALSE,
     reattached |-> FALSE, ceiling |-> FALSE, sticky |-> FALSE, falloff |-> FALSE, moves |-> 0,
     fixed |-> FALSE, step |-> 0,
     ledge |-> <<>>, roll |-> <<>>, charge |-> <<>>, charged |-> <<>>,
     jump |-> <<>>, jumped_to |-> <<>>, walls |-> <<>>, walled |-> <<>>,
     released |-> <<>>, right_walled |-> <<>>, call |-> <<>>,
     lock |-> <<>>, locked |-> <<>>, air |-> <<>>, moved |-> <<>>, ceiled |-> <<>>,
     ground |-> <<>>, stuck |-> <<>>, reacquired |-> <<>>, fallen |-> <<>>, blocked |-> FALSE,
     reach |-> <<>>, passes |-> <<>>]


\* the steps of a tick, in order
SimulationSteps(d, dt) ==
    IF d.pa.state = PAS_DEAD \/ d.pa.state = PAS_DROWNED
      THEN Death(d, dt)
      ELSE FixInvalidStates(Misc(Seen(FallingOffWallsAndCeilings(Seen(ReacquisitionOfTheGround(
             Seen(StickToTheGround(Seen(StickyPhysics(Seen(CeilingCollision(Seen(WallCollisions(
             Seen(LandAfterGettingHit(Seen(UpdatingThePosition(Seen(Jumping(Seen(FallingOff(Seen(
             GroundSpeed(Seen(ChargeAndRelease(Seen(Rolling(Seen(BalancingOnLedges(Seen(
             Breathing(Springing(LookingUpAndCrouchingDown(WalkingAndRunning(Facing(Seen(
             HorizontalControlLock(Seen(Winning(Waiting(GettingHit(d), dt)), "lock"), dt), "locked")),
             dt))), dt), "ledge")), "roll"), dt), "charge"), dt),
             "charged")), "air"), dt), "jump"), dt), "jumped_to"), dt), "moved")), "walls")), "walled")),
             "ceiled")), "ground")), "stuck")), "reacquired")), "fallen"), dt))

\* was_midair is not assigned: it is the one of the tick before
FirstSensors_late(s, dt) == SimulationSteps(s, dt)

\* was_midair is the midair of the first read of the sensors
FirstSensors(s, dt) == SimulationSteps([s EXCEPT !.pa.was_midair = s.pa.midair], dt)

\* physics simulation: the steps of a tick, in order
run_simulation(c, dt) == FirstSensors(update_sensors(c), dt)

\* the context of a tick of step seconds: the actor, the smash sensor U read
UpdateContext(a, in, om, m, at_U, reference_time, fixed, step) ==
    [pa |-> [a EXCEPT !.inside_wall = (at_U # NoObstacle /\ obstacle_is_solid(om[at_U])),
                      !.reference_time = reference_time],
     in |-> in, om |-> om, m |-> m,
     at |-> [A |-> NoObstacle, B |-> NoObstacle, C |-> NoObstacle, D |-> NoObstacle,
             M |-> NoObstacle, N |-> NoObstacle],
     tr |-> [NoTrace EXCEPT !.fixed = fixed, !.step = step]]

\* fixed_time forgotten after a step of 1/60
AdvanceFixedTime_stuck(r) ==
    [r EXCEPT !.pa.fixed_time = IF r.tr.fixed THEN @ ELSE r.pa.reference_time]

\* fixed_time after the simulation
AdvanceFixedTime(r) ==
    [r EXCEPT !.pa.fixed_time = IF r.tr.fixed THEN @ + FIXED_TIMESTEP ELSE r.pa.reference_time]

\* a frame that takes the fixed step up to two steps behind
physicsactor_update_lenient(a, in, om, m, dt) ==
    LET reference_time == a.reference_time + dt
        fixed == reference_time <= a.fixed_time + 2 * FIXED_TIMESTEP
        step == IF fixed THEN FIXED_TIMESTEP ELSE dt
    IN  AdvanceFixedTime(run_simulation(
            UpdateContext(a, in, om, m, sensor_check(sensor_U(a), TRUE, a.position, a.movmode, om),
                          reference_time, fixed, step), step))

\* one outer frame: the world om, the parameters m, the frame delta dt
physicsactor_update(a, in, om, m, dt) ==
    LET reference_time == a.reference_time + dt
        fixed == reference_time <= a.fixed_time + FIXED_TIMESTEP
        step == IF fixed THEN FIXED_TIMESTEP ELSE dt
    IN  AdvanceFixedTime(run_simulation(
            UpdateContext(a, in, om, m, sensor_check(sensor_U(a), TRUE, a.position, a.movmode, om),
                          reference_time, fixed, step), step))

(***************************************************************************)
(* The worlds the actor is put in, and where it is created                 *)
(***************************************************************************)
GroundTop == 10
Floor == Rect(-2000, GroundTop, 2000, GroundTop + 50, TRUE)
Worlds ==
    << <<>>,
       <<Floor, Rect(30, GroundTop - 80, 60, GroundTop, TRUE)>>,
       <<Ramp(-100, GroundTop - 110, 100, 300, 11, 10, TRUE)>>,
       <<Ramp(-100, GroundTop + 110, 100, 300, -11, 10, TRUE)>>,
       <<Floor, Rect(-2000, GroundTop - 80, 2000, GroundTop - 39, TRUE)>>,
       <<Floor, Rect(30, GroundTop - 80, 60, GroundTop, TRUE), Rect(-60, GroundTop - 80, -30, GroundTop, TRUE)>>,
       <<Rect(-100, GroundTop, 0, GroundTop + 50, TRUE)>>,
       <<Rect(-200, GroundTop - 12, 0, GroundTop + 50, FALSE), Rect(1, GroundTop, 200, GroundTop + 50, FALSE)>>,
       <<Rect(-200, GroundTop, 0, GroundTop + 50, FALSE), Rect(1, GroundTop - 12, 200, GroundTop + 50, FALSE)>>,
       <<Rect(-200, GroundTop - 8, 0, GroundTop + 50, FALSE), Rect(1, GroundTop, 200, GroundTop + 50, FALSE)>>,
       <<Floor, Rect(-200, GroundTop - 120, -1, GroundTop - 60, TRUE),
                Rect(0, GroundTop - 120, 200, GroundTop - 53, TRUE)>>,
       <<Ramp(-100, GroundTop - 50, 100, 300, 1, 2, TRUE)>>,
       <<Ramp(0, GroundTop, 200, 400, 11, 10, TRUE), Rect(-60, GroundTop - 200, -1, 400, TRUE)>>,
       <<Ramp(0, GroundTop, 200, 400, 11, 10, TRUE), Rect(-60, GroundTop - 40, -1, 400, TRUE),
         Rect(-60, GroundTop - 300, -7, GroundTop - 41, TRUE)>>,
       <<Rect(-100, GroundTop, 0, GroundTop + 50, TRUE), Rect(1, GroundTop + 12, 100, GroundTop + 50, TRUE)>> >>
\* where the actor stands on the floor: its feet sensors end one pixel in the ground
Standing == GroundTop - (SensorBank.A[Normal].y2 - 1)
FastSpeed == 20 * TARGET_FPS * VelUnit

VARIABLES pa, par, input, world, ev, steps
vars == <<pa, par, input, world, ev, steps>>

Event(op) == [op |-> op, dt |-> 0, tr |-> NoTrace]

Create(w, x, y) ==
    /\ pa = physicsactor_create([x |-> Px(x), y |-> Px(y)])
    /\ par = physicsactor_reset_model_parameters
    /\ input = input_create_computer
    /\ world = w
    /\ ev = Event("create")
    /\ steps = 0

\* one frame: the buttons in held are down, the frame lasted dt
Frame(dt, held) ==
    \E r \in {physicsactor_update(pa, [input EXCEPT !.oldstate = input.state, !.state = held],
                                  Worlds[world], par, dt)} :
        /\ pa' = r.pa
        /\ input' = r.in
        /\ ev' = [op |-> "update", dt |-> dt, tr |-> r.tr]
        /\ steps' = steps + 1
        /\ UNCHANGED <<par, world>>

\* a call of the public interface between two frames
Call(op, a) ==
    /\ pa' = a
    /\ ev' = Event(op)
    /\ steps' = steps + 1
    /\ UNCHANGED <<par, input, world>>

\* a call of the public interface with the arguments and the value returned
CallWith(op, a, info) ==
    /\ pa' = a
    /\ ev' = [Event(op) EXCEPT !.tr.call = info]
    /\ steps' = steps + 1
    /\ UNCHANGED <<par, input, world>>

\* the angle of the actor in degrees, counterclockwise
physicsactor_get_angle_clockwise(a) == ((a.angle * 180) \div 128) % 360
physicsactor_get_angle(a) == (((256 - a.angle) * 180) \div 128) % 360
\* the conversion formula of the sine/cosine table: angle = (256 - degrees / 1.40625) % 256
angle_of_degrees(degrees) == ((256 * 180 - degrees * 128) \div 180) % 256
physicsactor_set_position(a, position) == [a EXCEPT !.position = position]
\* the actor comes back whatever its state
physicsactor_ressurrect_always(a, position) ==
    [pa |-> physicsactor_set_position([a EXCEPT !.gsp = 0, !.xsp = 0, !.ysp = 0,
                                                !.facing_right = TRUE, !.state = PAS_STOPPED], position),
     ok |-> TRUE]
\* the actor after the call, and the value returned
physicsactor_ressurrect(a, position) ==
    IF a.state = PAS_DEAD \/ a.state = PAS_DROWNED
      THEN [pa |-> physicsactor_set_position([a EXCEPT !.gsp = 0, !.xsp = 0, !.ysp = 0,
                                                       !.facing_right = TRUE, !.state = PAS_STOPPED], position),
            ok |-> TRUE]
      ELSE [pa |-> a, ok |-> FALSE]
physicsactor_kill(a) == [a EXCEPT !.state = PAS_DEAD]
physicsactor_drown(a) == [a EXCEPT !.state = PAS_DROWNED]
\* the timer set to the duration given, longer or shorter
physicsactor_lock_horizontally_for_set(a, seconds) == [a EXCEPT !.hlock_timer = Max(seconds, 0)]
physicsactor_lock_horizontally_for(a, seconds) ==
    IF Max(seconds, 0) > a.hlock_timer THEN [a EXCEPT !.hlock_timer = Max(seconds, 0)] ELSE a
physicsactor_enable_winning_pose(a) == [a EXCEPT !.winning_pose = TRUE]
physicsactor_hit(a) == [a EXCEPT !.state = PAS_GETTINGHIT]
physicsactor_roll(a) == [a EXCEPT !.state = PAS_ROLLING]
physicsactor_breathe(a) == [a EXCEPT !.state = PAS_BREATHING, !.breathe_timer = TimeUnit \div 2]
physicsactor_set_xsp(a, value) == [a EXCEPT !.xsp = value]
physicsactor_set_ysp(a, value) == [a EXCEPT !.ysp = value]
physicsactor_set_gsp(a, value) == [a EXCEPT !.gsp = value]
physicsactor_set_waittime(m, value) == [m EXCEPT !.waittime = value]

(***************************************************************************)
(* Free play on a floor with a wall                                        *)
(***************************************************************************)
MaxSteps == 3
Dts == {FIXED_TIMESTEP, 2 * FIXED_TIMESTEP}
Helds == {{}, {IB_RIGHT}, {IB_LEFT}, {IB_DOWN}, {IB_FIRE1}}

Init == \E y \in {Standing, Standing - 2} : Create(2, 0, y)

Update == steps < MaxSteps /\ \E dt \in Dts, held \in Helds : Frame(dt, held)
CallSetXsp == steps < MaxSteps /\ Call("set_xsp", physicsactor_set_xsp(pa, FastSpeed))
CallSetGsp == steps < MaxSteps /\ Call("set_gsp", physicsactor_set_gsp(pa, FastSpeed))
CallHit == steps < MaxSteps /\ Call("hit", physicsactor_hit(pa))
CallRoll == steps < MaxSteps /\ Call("roll", physicsactor_roll(pa))
CallBreathe == steps < MaxSteps /\ Call("breathe", physicsactor_breathe(pa))

Next == Update \/ CallSetXsp \/ CallSetGsp \/ CallHit \/ CallRoll \/ CallBreathe

Spec == Init /\ [][Next]_vars

(***************************************************************************)
(* On a slope                                                              *)
(***************************************************************************)
MaxSlopeSteps == 3
InitSlope == \E w \in {3, 4} : Create(w, 0, Standing)
SlopeUpdate ==
    steps < MaxSlopeSteps /\ \E dt \in Dts, held \in {{}, {IB_RIGHT}, {IB_LEFT}, {IB_FIRE1}} : Frame(dt, held)
SlopeSetGsp ==
    steps < MaxSlopeSteps /\ \E v \in {FastSpeed, -FastSpeed} : Call("set_gsp", physicsactor_set_gsp(pa, v))
NextSlope == SlopeUpdate \/ SlopeSetGsp
SpecSlope == InitSlope /\ [][NextSlope]_vars

(***************************************************************************)
(* Falling in the empty world, no input                                    *)
(***************************************************************************)
MaxRestSteps == 6
RestDts == {FIXED_TIMESTEP \div 2, FIXED_TIMESTEP, 2 * FIXED_TIMESTEP, (5 * TimeUnit) \div 24}
InitRest == Create(1, 0, 0)
RestUpdate == steps < MaxRestSteps /\ \E dt \in RestDts : Frame(dt, {})
NextRest == RestUpdate
SpecRest == InitRest /\ [][NextRest]_vars

(***************************************************************************)
(* Standing on the floor, no input                                         *)
(***************************************************************************)
MaxIdleSteps == 5
ShortWait == 2 * FIXED_TIMESTEP
InitIdle == Create(2, -1000, Standing)
IdleUpdate == steps < MaxIdleSteps /\ \E dt \in RestDts : Frame(dt, {})
IdleBreathe == steps < MaxIdleSteps /\ Call("breathe", physicsactor_breathe(pa))
IdleLock ==
    steps < MaxIdleSteps /\ Call("lock_horizontally_for", physicsactor_lock_horizontally_for(pa, TimeUnit \div 2))
IdleWin == steps < MaxIdleSteps /\ Call("enable_winning_pose", physicsactor_enable_winning_pose(pa))
IdleSetWaittime ==
    /\ steps < MaxIdleSteps
    /\ par' = physicsactor_set_waittime(par, ShortWait)
    /\ ev' = Event("set_waittime")
    /\ steps' = steps + 1
    /\ UNCHANGED <<pa, input, world>>
NextIdle == IdleUpdate \/ IdleBreathe \/ IdleLock \/ IdleWin \/ IdleSetWaittime
SpecIdle == InitIdle /\ [][NextIdle]_vars

(***************************************************************************)
(* Walking from rest: RIGHT is held on every frame of 1/60 s               *)
(***************************************************************************)
MaxWalkSteps == 130
InitWalk == Create(2, -1500, Standing)
WalkUpdate == steps < MaxWalkSteps /\ Frame(FIXED_TIMESTEP, {IB_RIGHT})
NextWalk == WalkUpdate
SpecWalk == InitWalk /\ [][NextWalk]_vars

(***************************************************************************)
(* Jumping: on the floor, on a slope, under a low ceiling                  *)
(***************************************************************************)
MaxJumpSteps == 4
JumpHelds == {{}, {IB_FIRE1}, {IB_FIRE1, IB_DOWN}, {IB_FIRE1, IB_UP}, {IB_DOWN}}
SlowRise == -(TARGET_FPS * VelUnit)
InitJump == \E w \in {2, 3, 5} : Create(w, 0, Standing)
JumpUpdate == steps < MaxJumpSteps /\ \E held \in JumpHelds : Frame(FIXED_TIMESTEP, held)
JumpSetGsp ==
    steps < MaxJumpSteps /\ \E v \in {FastSpeed, -FastSpeed} : Call("set_gsp", physicsactor_set_gsp(pa, v))
JumpSetYsp == steps < MaxJumpSteps /\ Call("set_ysp", physicsactor_set_ysp(pa, SlowRise))
JumpRollCall == steps < MaxJumpSteps /\ Call("roll", physicsactor_roll(pa))
NextJump == JumpUpdate \/ JumpSetGsp \/ JumpSetYsp \/ JumpRollCall
SpecJump == InitJump /\ [][NextJump]_vars

(***************************************************************************)
(* Rolling on the floor                                                    *)
(***************************************************************************)
MaxRollSteps == 5
RollDts == {FIXED_TIMESTEP, (5 * TimeUnit) \div 24}
RollHelds == {{}, {IB_DOWN}, {IB_DOWN, IB_LEFT}}
RollSpeed == 64 * VelUnit
InitRoll == Create(2, -1000, Standing)
RollUpdate == steps < MaxRollSteps /\ \E dt \in RollDts, held \in RollHelds : Frame(dt, held)
RollSetGsp == steps < MaxRollSteps /\ Call("set_gsp", physicsactor_set_gsp(pa, RollSpeed))
NextRoll == RollUpdate \/ RollSetGsp
SpecRoll == InitRoll /\ [][NextRoll]_vars

(***************************************************************************)
(* Charging on the floor: ducking, charging, releasing, with a long frame  *)
(***************************************************************************)
MaxChargeSteps == 5
ChargeHelds == {{}, {IB_DOWN}, {IB_DOWN, IB_FIRE1}, {IB_LEFT}}
physicsactor_set_chrg(m, value) == [m EXCEPT !.chrg = value]
InitCharge == Create(2, -1000, Standing)
ChargeUpdate == steps < MaxChargeSteps /\ \E held \in ChargeHelds : Frame(FIXED_TIMESTEP, held)
ChargeLongFrame == steps < MaxChargeSteps /\ Frame(TimeUnit, {IB_DOWN})
ChargeSetChrg ==
    /\ steps < MaxChargeSteps
    /\ par' = physicsactor_set_chrg(par, 0)
    /\ ev' = Event("set_chrg")
    /\ steps' = steps + 1
    /\ UNCHANGED <<pa, input, world>>
NextCharge == ChargeUpdate \/ ChargeLongFrame \/ ChargeSetChrg
SpecCharge == InitCharge /\ [][NextCharge]_vars

(***************************************************************************)
(* Between two walls on the floor                                          *)
(***************************************************************************)
MaxWallSteps == 4
WallHelds == {{}, {IB_RIGHT}, {IB_LEFT}, {IB_DOWN}, {IB_RIGHT, IB_FIRE1}}
InitWall == Create(6, 0, Standing)
WallUpdate == steps < MaxWallSteps /\ \E held \in WallHelds : Frame(FIXED_TIMESTEP, held)
WallSetGsp ==
    steps < MaxWallSteps /\ \E v \in {FastSpeed, -FastSpeed} : Call("set_gsp", physicsactor_set_gsp(pa, v))
NextWall == WallUpdate \/ WallSetGsp
SpecWall == InitWall /\ [][NextWall]_vars

(***************************************************************************)
(* On a platform that ends on both sides                                   *)
(***************************************************************************)
MaxLedgeSteps == 3
LedgeXs == {4, -3, -50, -104}
LedgeHelds == {{}, {IB_FIRE1}, {IB_RIGHT}, {IB_LEFT}, {IB_DOWN}, {IB_UP}}
InitLedge == \E x \in LedgeXs : Create(7, x, Standing)
LedgeUpdate == steps < MaxLedgeSteps /\ \E held \in LedgeHelds : Frame(FIXED_TIMESTEP, held)
NextLedge == LedgeUpdate
SpecLedge == InitLedge /\ [][NextLedge]_vars

(***************************************************************************)
(* Killed, drowned and brought back                                        *)
(***************************************************************************)
MaxDeathSteps == 4
DeathDts == {FIXED_TIMESTEP, (5 * TimeUnit) \div 24}
DeathHelds == {{}, {IB_LEFT, IB_FIRE1}}
DeathPositions == {[x |-> Px(-900), y |-> Px(Standing)], [x |-> Px(-1000), y |-> Px(Standing - 30)]}
InitDeath == Create(2, -1000, Standing)
DeathUpdate == steps < MaxDeathSteps /\ \E dt \in DeathDts, held \in DeathHelds : Frame(dt, held)
DeathKill == steps < MaxDeathSteps /\ Call("kill", physicsactor_kill(pa))
DeathDrown == steps < MaxDeathSteps /\ Call("drown", physicsactor_drown(pa))
DeathSetGsp == steps < MaxDeathSteps /\ Call("set_gsp", physicsactor_set_gsp(pa, RollSpeed))
DeathSetYsp == steps < MaxDeathSteps /\ Call("set_ysp", physicsactor_set_ysp(pa, par.topyspeed - VelUnit))
DeathRessurrect ==
    /\ steps < MaxDeathSteps
    /\ \E position \in DeathPositions :
         \E r \in {physicsactor_ressurrect(pa, position)} :
            CallWith("ressurrect", r.pa, <<position, r.ok>>)
NextDeath == DeathUpdate \/ DeathKill \/ DeathDrown \/ DeathSetGsp \/ DeathSetYsp \/ DeathRessurrect
SpecDeath == InitDeath /\ [][NextDeath]_vars

(***************************************************************************)
(* The horizontal control lock asked for again and again                   *)
(***************************************************************************)
MaxLockSteps == 5
LockSeconds == {-(TimeUnit \div 2), 0, TimeUnit \div 4, TimeUnit \div 2}
LockHelds == {{}, {IB_RIGHT}}
InitLock == Create(2, -1000, Standing)
LockUpdate == steps < MaxLockSteps /\ \E held \in LockHelds : Frame(FIXED_TIMESTEP, held)
LockCall ==
    /\ steps < MaxLockSteps
    /\ \E seconds \in LockSeconds :
         CallWith("lock_horizontally_for", physicsactor_lock_horizontally_for(pa, seconds), <<seconds>>)
NextLock == LockUpdate \/ LockCall
SpecLock == InitLock /\ [][NextLock]_vars

(***************************************************************************)
(* The horizontal control lock on the floor, on a slope, in the air        *)
(***************************************************************************)
MaxHlockSteps == 4
HlockHelds == {{}, {IB_RIGHT}, {IB_LEFT, IB_FIRE1}}
HlockSeconds == {FIXED_TIMESTEP, TimeUnit \div 4}
InitHlock == \E w \in {2, 3} : Create(w, 0, Standing)
HlockUpdate == steps < MaxHlockSteps /\ \E held \in HlockHelds : Frame(FIXED_TIMESTEP, held)
HlockCall ==
    /\ steps < MaxHlockSteps
    /\ \E seconds \in HlockSeconds :
         CallWith("lock_horizontally_for", physicsactor_lock_horizontally_for(pa, seconds), <<seconds>>)
HlockSetGsp == steps < MaxHlockSteps /\ Call("set_gsp", physicsactor_set_gsp(pa, -RollSpeed))
HlockKill == steps < MaxHlockSteps /\ Call("kill", physicsactor_kill(pa))
NextHlock == HlockUpdate \/ HlockCall \/ HlockSetGsp \/ HlockKill
SpecHlock == InitHlock /\ [][NextHlock]_vars

(***************************************************************************)
(* In the air of an empty level, with the air drag set again and again     *)
(***************************************************************************)
MaxAirSteps == 4
AirHelds == {{}, {IB_RIGHT}}
AirDrags == {-(TrigUnit \div 2), TrigUnit \div 2, 2 * TrigUnit}
InitAir == Create(1, 0, 0)
AirUpdate == steps < MaxAirSteps /\ \E held \in AirHelds : Frame(FIXED_TIMESTEP, held)
AirSetAirdrag ==
    /\ steps < MaxAirSteps
    /\ \E value \in AirDrags :
         /\ par' = physicsactor_set_airdrag(par, value)
         /\ ev' = [Event("set_airdrag") EXCEPT !.tr.call = <<value>>]
    /\ steps' = steps + 1
    /\ UNCHANGED <<pa, input, world>>
AirSetXsp == steps < MaxAirSteps /\ Call("set_xsp", physicsactor_set_xsp(pa, -RollSpeed))
AirSetYsp == steps < MaxAirSteps /\ Call("set_ysp", physicsactor_set_ysp(pa, SlowRise))
AirHit == steps < MaxAirSteps /\ Call("hit", physicsactor_hit(pa))
NextAir == AirUpdate \/ AirSetAirdrag \/ AirSetXsp \/ AirSetYsp \/ AirHit
SpecAir == InitAir /\ [][NextAir]_vars

(***************************************************************************)
(* Angles: read in degrees, forced, with the movement mode that follows    *)
(***************************************************************************)
MaxAngleSteps == 3
ForcedAngles == {0, 16, 32, 48, 96, 128, 160, 200, 224, 240}
\* an actor moving on the ground at the angle of some whole number of degrees
InitAngle ==
    \E degrees \in 0..359 :
        /\ pa = [physicsactor_create([x |-> 0, y |-> 0])
                   EXCEPT !.angle = angle_of_degrees(degrees),
                          !.movmode = MovModeForAngle(angle_of_degrees(degrees), MM_FLOOR),
                          !.gsp = RollSpeed]
        /\ par = physicsactor_reset_model_parameters
        /\ input = input_create_computer
        /\ world = 1
        /\ ev = [Event("encode") EXCEPT !.tr.call = <<degrees>>]
        /\ steps = 0
AngleGet ==
    /\ steps < MaxAngleSteps
    /\ ev' = [Event("get_angle") EXCEPT
                !.tr.call = IF ev.op = "encode" THEN <<physicsactor_get_angle(pa), ev.tr.call[1]>>
                            ELSE <<physicsactor_get_angle(pa)>>]
    /\ steps' = steps + 1
    /\ UNCHANGED <<pa, par, input, world>>
\* pa->angle = new_angle; UPDATE_MOVMODE()
AngleForce ==
    /\ steps < MaxAngleSteps
    /\ \E new_angle \in ForcedAngles :
         \E r \in {update_movmode([pa |-> [pa EXCEPT !.angle = new_angle]])} :
            CallWith("force_angle", r.pa, <<new_angle>>)
NextAngle == AngleGet \/ AngleForce
SpecAngle == InitAngle /\ [][NextAngle]_vars

(***************************************************************************)
(* On two clouds of different heights, one under each foot                 *)
(***************************************************************************)
MaxCloudSteps == 3
CloudHelds == {{}, {IB_RIGHT}, {IB_LEFT}, {IB_FIRE1}}
InitCloud == \E w \in {8, 9, 10} : Create(w, 5, Standing)
CloudUpdate == steps < MaxCloudSteps /\ \E held \in CloudHelds : Frame(FIXED_TIMESTEP, held)
NextCloud == CloudUpdate
SpecCloud == InitCloud /\ [][NextCloud]_vars

(***************************************************************************)
(* Jumping against a ceiling, flat or with a step of 7 pixels              *)
(***************************************************************************)
MaxCeilSteps == 4
CeilHelds == {{}, {IB_FIRE1}, {IB_LEFT}, {IB_RIGHT, IB_FIRE1}}
InitCeil == \E w \in {5, 11} : \E x \in {-1, 0} : Create(w, x, Standing)
CeilUpdate == steps < MaxCeilSteps /\ \E held \in CeilHelds : Frame(FIXED_TIMESTEP, held)
CeilSetYsp == steps < MaxCeilSteps /\ Call("set_ysp", physicsactor_set_ysp(pa, SlowRise))
CeilSetXsp ==
    steps < MaxCeilSteps /\ \E v \in {RollSpeed, -RollSpeed} : Call("set_xsp", physicsactor_set_xsp(pa, v))
CeilRollCall == steps < MaxCeilSteps /\ Call("roll", physicsactor_roll(pa))
NextCeil == CeilUpdate \/ CeilSetYsp \/ CeilSetXsp \/ CeilRollCall
SpecCeil == InitCeil /\ [][NextCeil]_vars

(***************************************************************************)
(* Moving at several speeds, in frames of 1/60 s and of 1/24 s             *)
(***************************************************************************)
MaxMoveSteps == 3
MoveDts == {FIXED_TIMESTEP, TimeUnit \div 24}
MoveHelds == {{}, {IB_RIGHT}}
BriskSpeed == 14 * TARGET_FPS * VelUnit
InitMove == \E w \in {1, 2} : Create(w, 0, Standing)
MoveUpdate == steps < MaxMoveSteps /\ \E dt \in MoveDts, held \in MoveHelds : Frame(dt, held)
MoveSetXsp ==
    steps < MaxMoveSteps /\ \E v \in {RollSpeed, BriskSpeed, -FastSpeed} : Call("set_xsp", physicsactor_set_xsp(pa, v))
MoveSetYsp ==
    steps < MaxMoveSteps /\ \E v \in {SlowRise, -FastSpeed} : Call("set_ysp", physicsactor_set_ysp(pa, v))
MoveSetGsp == steps < MaxMoveSteps /\ Call("set_gsp", physicsactor_set_gsp(pa, FastSpeed))
NextMove == MoveUpdate \/ MoveSetXsp \/ MoveSetYsp \/ MoveSetGsp
SpecMove == InitMove /\ [][NextMove]_vars

(***************************************************************************)
(* Landing on a floor, on a gentle ramp and on a steep ramp                *)
(***************************************************************************)
MaxLandSteps == 4
LandHelds == {{}, {IB_RIGHT}}
FallSpeed == 4 * TARGET_FPS * VelUnit
InitLand == \E w \in {2, 3, 12} : Create(w, 0, Standing - 14)
LandUpdate == steps < MaxLandSteps /\ \E held \in LandHelds : Frame(FIXED_TIMESTEP, held)
LandSetXsp ==
    steps < MaxLandSteps /\ \E v \in {RollSpeed, -BriskSpeed} : Call("set_xsp", physicsactor_set_xsp(pa, v))
LandSetYsp == steps < MaxLandSteps /\ Call("set_ysp", physicsactor_set_ysp(pa, FallSpeed))
LandRollCall == steps < MaxLandSteps /\ Call("roll", physicsactor_roll(pa))
NextLand == LandUpdate \/ LandSetXsp \/ LandSetYsp \/ LandRollCall
SpecLand == InitLand /\ [][NextLand]_vars

(***************************************************************************)
(* On a steep ramp, alone or at the foot of a wall                         *)
(***************************************************************************)
MaxFallSteps == 5
FallHelds == {{}, {IB_LEFT}}
physicsactor_set_falloffthreshold(m, value) == [m EXCEPT !.falloffthreshold = value]
InitFall == \E w \in {3, 13} : \E x \in {0, 12} : Create(w, x, Standing + (11 * x) \div 10)
FallUpdate == steps < MaxFallSteps /\ \E held \in FallHelds : Frame(FIXED_TIMESTEP, held)
FallSetGsp == steps < MaxFallSteps /\ Call("set_gsp", physicsactor_set_gsp(pa, -BriskSpeed))
FallSetThreshold ==
    /\ steps < MaxFallSteps
    /\ \E value \in {0, (5 * TARGET_FPS * VelUnit) \div 2} :
         /\ par' = physicsactor_set_falloffthreshold(par, value)
         /\ ev' = [Event("set_falloffthreshold") EXCEPT !.tr.call = <<value>>]
         /\ steps' = steps + 1
         /\ UNCHANGED <<pa, input, world>>
NextFall == FallUpdate \/ FallSetGsp \/ FallSetThreshold
SpecFall == InitFall /\ [][NextFall]_vars

(***************************************************************************)
(* Rolling off the edge of a platform                                      *)
(***************************************************************************)
MaxStickySteps == 6
StickyHelds == {{}, {IB_RIGHT}}
StickyPositions == {[x |-> Px(-50), y |-> Px(Standing)]}
InitSticky == Create(7, -5, Standing)
StickyUpdate == steps < MaxStickySteps /\ \E held \in StickyHelds : Frame(FIXED_TIMESTEP, held)
StickyRollCall == steps < MaxStickySteps /\ Call("roll", physicsactor_roll(pa))
StickyHit == steps < MaxStickySteps /\ Call("hit", physicsactor_hit(pa))
StickySetGsp == steps < MaxStickySteps /\ Call("set_gsp", physicsactor_set_gsp(pa, BriskSpeed))
StickySetPosition ==
    /\ steps < MaxStickySteps
    /\ \E position \in StickyPositions :
         CallWith("set_position", physicsactor_set_position(pa, position), <<position>>)
NextSticky == StickyUpdate \/ StickyRollCall \/ StickyHit \/ StickySetGsp \/ StickySetPosition
SpecSticky == InitSticky /\ [][NextSticky]_vars

(***************************************************************************)
(* Up a wall whose upper part is set back by 6 pixels                      *)
(***************************************************************************)
MaxClimbSteps == 5
ClimbHelds == {{}, {IB_LEFT}}
InitClimb == \E y \in {Standing, Standing - 14} : Create(14, 0, y)
ClimbUpdate == steps < MaxClimbSteps /\ \E held \in ClimbHelds : Frame(FIXED_TIMESTEP, held)
ClimbSetGsp ==
    steps < MaxClimbSteps /\ \E v \in {-BriskSpeed, -FastSpeed} : Call("set_gsp", physicsactor_set_gsp(pa, v))
ClimbRollCall == steps < MaxClimbSteps /\ Call("roll", physicsactor_roll(pa))
NextClimb == ClimbUpdate \/ ClimbSetGsp \/ ClimbRollCall
SpecClimb == InitClimb /\ [][NextClimb]_vars

(***************************************************************************)
(* Off a platform, above nothing or above a floor that is 12 pixels lower   *)
(***************************************************************************)
MaxDropSteps == 5
DropHelds == {{}, {IB_RIGHT}}
InitDrop == \E w \in {7, 15} : Create(w, -5, Standing)
DropUpdate == steps < MaxDropSteps /\ \E held \in DropHelds : Frame(FIXED_TIMESTEP, held)
DropRollCall == steps < MaxDropSteps /\ Call("roll", physicsactor_roll(pa))
DropSetGsp ==
    steps < MaxDropSteps /\ \E v \in {BriskSpeed, FastSpeed} : Call("set_gsp", physicsactor_set_gsp(pa, v))
NextDrop == DropUpdate \/ DropRollCall \/ DropSetGsp
SpecDrop == InitDrop /\ [][NextDrop]_vars

(***************************************************************************)
(* The slope table, looked up with displacements within and beyond its     *)
(* limit, and the angles of a walk from the ramp to the wall               *)
(***************************************************************************)
MaxLookupSteps == 3
LookupReach == 13
LookupComponents ==
    {-LookupReach, -SLOPE_LIMIT - 1, -SLOPE_LIMIT, 0, SLOPE_LIMIT, SLOPE_LIMIT + 1, LookupReach}
LookupHelds == {{}, {IB_LEFT}}
InitLookup == Create(14, 0, Standing)
LookupUpdate == steps < MaxLookupSteps /\ \E held \in LookupHelds : Frame(FIXED_TIMESTEP, held)
\* SLOPE(y, x)
LookupSlope ==
    /\ steps < MaxLookupSteps
    /\ \E y \in LookupComponents, x \in LookupComponents : CallWith("SLOPE", pa, <<y, x, SLOPE(y, x)>>)
NextLookup == LookupUpdate \/ LookupSlope
SpecLookup == InitLookup /\ [][NextLookup]_vars

(***************************************************************************)
(* Properties                                                              *)
(***************************************************************************)
AfterTick == ev.op = "update"
Grounded == ~pa.midair

\* C2: after every tick, movmode is the mode that the angle determines; only at
\* the boundary angles 0x20, 0x60, 0xA0, 0xE0 is it free to be what it was
C2_MovmodeOfAngle ==
    AfterTick =>
        /\ (pa.angle < 32 \/ pa.angle > 224) => pa.movmode = MM_FLOOR
        /\ (pa.angle > 32 /\ pa.angle < 96) => pa.movmode = MM_LEFTWALL
        /\ (pa.angle > 96 /\ pa.angle < 160) => pa.movmode = MM_CEILING
        /\ (pa.angle > 160 /\ pa.angle < 224) => pa.movmode = MM_RIGHTWALL
C2_Witness == AfterTick /\ pa.angle > 160 /\ pa.angle < 224 /\ pa.movmode = MM_RIGHTWALL /\ ev.tr.gs[1] # 0

\* C3: after every tick that ends with the actor grounded, |gsp| <= capspeed
C3_GspWithinCap == (AfterTick /\ Grounded) => Abs(pa.gsp) <= par.capspeed

\* C4 as claimed: at the end of every tick in which the actor is grounded, xsp and
\* ysp are the components of the gsp along the angle the actor has then
C4_SpeedAlongAngle ==
    (AfterTick /\ Grounded) =>
        /\ pa.xsp = MulTrig(pa.gsp, COS(pa.angle))
        /\ pa.ysp = MulTrig(pa.gsp, -SIN(pa.angle))
\* C4 as amended: xsp and ysp are the components of the gsp along the angle that the
\* grounded actor has at the ground speed step; they are still those of the end of
\* the tick when gsp and angle are then what they were at that step and the actor
\* did not jump nor meet a wall or a ceiling in the tick
C4_SpeedAlongAngleOfStep ==
    (AfterTick /\ Grounded /\ ev.tr.gs = <<pa.gsp, pa.angle>>
       /\ ~ev.tr.jumped /\ ~ev.tr.wall /\ ~ev.tr.ceiling) =>
        /\ pa.xsp = MulTrig(pa.gsp, COS(pa.angle))
        /\ pa.ysp = MulTrig(pa.gsp, -SIN(pa.angle))
C4_Witness ==
    /\ AfterTick /\ Grounded /\ ev.tr.gs = <<pa.gsp, pa.angle>>
    /\ ~ev.tr.jumped /\ ~ev.tr.wall /\ ~ev.tr.ceiling
    /\ pa.gsp # 0 /\ pa.movmode # MM_FLOOR /\ pa.xsp # 0 /\ pa.ysp # 0

\* C6: after every tick, an actor in the air is not Pushing, Stopped, Waiting,
\* Ducking or LookingUp
C6_NoGroundPoseInTheAir ==
    (AfterTick /\ pa.midair) =>
        pa.state \notin {PAS_PUSHING, PAS_STOPPED, PAS_WAITING, PAS_DUCKING, PAS_LOOKINGUP}
C6_Witness ==
    /\ AfterTick /\ pa.midair /\ ev.tr.wait_state = PAS_STOPPED
    /\ pa.state \in {PAS_WALKING, PAS_RUNNING}

\* C1: every update adds the frame delta to reference_time; if then reference_time
\* <= fixed_time + 1/60 the simulation runs with step 1/60 and fixed_time grows by
\* 1/60, otherwise it runs with the frame delta and fixed_time becomes
\* reference_time. The step of the simulation is seen in the growth of midair_timer.
C1_FixedTimestepDriver ==
    [][ev'.op = "update" =>
          LET ref == pa.reference_time + ev'.dt
          IN  /\ pa'.reference_time = ref
              /\ IF ref <= pa.fixed_time + FIXED_TIMESTEP
                   THEN /\ pa'.fixed_time = pa.fixed_time + FIXED_TIMESTEP
                        /\ pa'.midair_timer = pa.midair_timer + FIXED_TIMESTEP
                   ELSE /\ pa'.fixed_time = ref
                        /\ pa'.midair_timer = pa.midair_timer + ev'.dt]_vars
\* a step of 1/60 taken for a shorter frame, after a frame that took its own delta
C1_Witness ==
    /\ AfterTick /\ ev.tr.fixed /\ ev.dt < FIXED_TIMESTEP
    /\ pa.fixed_time > pa.reference_time /\ pa.midair_timer > pa.fixed_time

\* C5: after every tick no timer is negative
C5_TimersNotNegative ==
    AfterTick =>
        /\ pa.hlock_timer >= 0 /\ pa.wait_timer >= 0 /\ pa.midair_timer >= 0
        /\ pa.breathe_timer >= 0 /\ pa.jump_lock_timer >= 0

\* C7 as claimed: with no input and no obstacle, the actor created at rest keeps its
\* position and its velocities
C7_RemainsAtRest ==
    AfterTick => pa.position = [x |-> 0, y |-> 0] /\ pa.xsp = 0 /\ pa.ysp = 0
\* C7 as amended: with no input and no obstacle, the actor created at rest keeps x,
\* xsp and gsp, and falls: ysp is grv times the simulated time, no more than
\* topyspeed, and y has grown
C7_FallsStraight ==
    AfterTick =>
        /\ pa.position.x = 0 /\ pa.xsp = 0 /\ pa.gsp = 0
        /\ pa.midair
        /\ pa.ysp = Min(Dv(par.grv, pa.midair_timer), par.topyspeed)
        /\ pa.position.y > 0
C7_Witness == AfterTick /\ world = 1 /\ pa.ysp = par.topyspeed /\ input.state = {}

\* C8: a grounded actor that was Stopped with no input until wait_timer >= waittime
\* is Waiting after the tick
C8_WaitingAfterWaittime ==
    (AfterTick /\ Grounded /\ input.state = {} /\ ev.tr.wait_state = PAS_STOPPED
       /\ pa.wait_timer >= par.waittime)
    => pa.state = PAS_WAITING

\* C9: with winning_pose enabled, a tick in which the actor is grounded with |gsp|
\* below walkthreshold ends in the Winning state
C9_WinningAfterBrake ==
    (AfterTick /\ pa.winning_pose /\ ~pa.was_midair /\ Grounded /\ Abs(pa.gsp) < par.walkthreshold)
    => pa.state = PAS_WINNING

\* C10 as claimed: after 1 s of frames of 1/60 s with RIGHT held, gsp is topspeed and
\* the state is Running
C10_TopspeedAfterOneSecond ==
    (AfterTick /\ pa.reference_time = TimeUnit) => pa.gsp = par.topspeed /\ pa.state = PAS_RUNNING
\* C10 as amended: each such frame adds acc/60 to gsp, so that at 1 s gsp is acc
\* times 1 s (168.75 px/s) and the state is Walking; gsp is topspeed and the state
\* Running from the frame number topspeed / (acc/60) on (the 128th), not before
C10_TopspeedAfterTwoSeconds ==
    LET perFrame == Dv(par.acc, FIXED_TIMESTEP)
        frames == pa.reference_time \div FIXED_TIMESTEP
        needed == par.topspeed \div perFrame
    IN  AfterTick =>
          /\ frames < needed => pa.gsp = frames * perFrame /\ pa.state = PAS_WALKING
          /\ frames >= needed => pa.gsp = par.topspeed /\ pa.state = PAS_RUNNING
          /\ pa.reference_time = TimeUnit => pa.gsp = Dv(par.acc, TimeUnit)
C10_Witness == AfterTick /\ pa.reference_time > 2 * TimeUnit /\ pa.state = PAS_RUNNING /\ pa.gsp = par.topspeed

\* C11: at the jumping step of a tick, a grounded actor whose jump lock has expired,
\* with FIRE1 pressed in this tick and neither UP nor DOWN held (or Rolling), gets
\* xsp = jmp sin(angle) + gsp cos(angle), ysp = jmp cos(angle) - gsp sin(angle) (jmp
\* on flat ground), gsp = 0, state Jumping and angle 0; an actor in the air in state
\* Jumping with FIRE1 not held and ysp < jmprel gets ysp = jmprel
C11_JumpAndShortHop ==
    (AfterTick /\ ev.tr.jump # <<>>) =>
        LET b == ev.tr.jump.pa
            in == ev.tr.jump.in
            a == ev.tr.jumped_to.pa
        IN  /\ (/\ ~b.midair /\ b.jump_lock_timer - ev.tr.step <= 0
                /\ input_button_pressed(in, IB_FIRE1)
                /\ \/ ~input_button_down(in, IB_UP) /\ ~input_button_down(in, IB_DOWN)
                   \/ b.state = PAS_ROLLING) =>
                   /\ a.xsp = MulTrig(par.jmp, SIN(b.angle)) + MulTrig(b.gsp, COS(b.angle))
                   /\ a.ysp = MulTrig(par.jmp, COS(b.angle)) - MulTrig(b.gsp, SIN(b.angle))
                   /\ b.angle = 0 => a.ysp = par.jmp
                   /\ a.gsp = 0 /\ a.state = PAS_JUMPING /\ a.angle = 0
            /\ (/\ b.midair /\ b.state = PAS_JUMPING
                /\ ~input_button_down(in, IB_FIRE1) /\ b.ysp < par.jmprel) =>
                   a.ysp = par.jmprel
\* a jump from a slope at speed
C11_Witness ==
    /\ AfterTick /\ ev.tr.jumped
    /\ ev.tr.jump.pa.angle # 0 /\ ev.tr.jump.pa.gsp # 0
    /\ ev.tr.jumped_to.pa.state = PAS_JUMPING /\ ev.tr.jumped_to.pa.xsp # 0

C14_ChargeAndRelease ==
    (AfterTick /\ ev.tr.charge # <<>>) =>
        LET b == ev.tr.charge.pa
            in == ev.tr.charge.in
            a == ev.tr.charged.pa
            charging == b.state = PAS_CHARGING \/ a.state = PAS_CHARGING
            impulse == MulTrig(par.chrg, 67000 + RoundDiv(33 * ev.tr.released[1], 100))
        IN  /\ (b.state = PAS_DUCKING /\ a.state # PAS_DUCKING) =>
                 /\ a.state = PAS_CHARGING
                 /\ input_button_down(in, IB_DOWN) /\ input_button_pressed(in, IB_FIRE1)
                 /\ par.chrg # 0
            /\ (b.state = PAS_CHARGING /\ ~input_button_down(in, IB_DOWN)) =>
                 /\ ev.tr.released # <<>>
                 /\ a.gsp = (IF b.facing_right THEN impulse ELSE -impulse)
                 /\ a.state = PAS_ROLLING
                 /\ a.charge_intensity = 0
                 /\ a.jump_lock_timer = (3 * TimeUnit) \div 32
            /\ (charging /\ input_button_down(in, IB_DOWN)) =>
                 a.gsp = 0 /\ a.state = PAS_CHARGING
C14_Witness ==
    /\ AfterTick /\ ev.tr.charge # <<>> /\ ev.tr.released # <<>>
    /\ ev.tr.charge.pa.state = PAS_CHARGING
    /\ ~ev.tr.charge.pa.facing_right
    /\ ev.tr.released[1] > 0
    /\ ev.tr.released[1] # ev.tr.charge.pa.charge_intensity
    /\ ev.tr.charged.pa.state = PAS_ROLLING

\* C15: charge_intensity is within [0, 1] after every tick
C15_ChargeIntensityInRange ==
    AfterTick => (pa.charge_intensity >= 0 /\ pa.charge_intensity <= TrigUnit)

\* C16: when sensor N reports a wall after the motion step, gsp becomes 0 if it was
\* positive and is kept otherwise; in Floor mode xsp becomes min(xsp, 0), the angle is kept,
\* and an actor then grounded and not Rolling is Pushing facing right if RIGHT is held and
\* not Pushing otherwise; sensor M with LEFT is the mirror image
C16_WallPush ==
    (AfterTick /\ ev.tr.walls # <<>>) =>
        LET b == ev.tr.walls.pa
            r == ev.tr.right_walled.pa
            a == ev.tr.walled.pa
            in == ev.tr.walls.in
        IN  /\ ev.tr.walls.at.N # NoObstacle =>
                 /\ r.gsp = (IF b.gsp > 0 THEN 0 ELSE b.gsp)
                 /\ b.movmode = MM_FLOOR =>
                      /\ r.xsp = Min(b.xsp, 0)
                      /\ r.angle = b.angle
                      /\ (~r.midair /\ r.state # PAS_ROLLING) =>
                           IF input_button_down(in, IB_RIGHT)
                             THEN r.state = PAS_PUSHING /\ r.facing_right
                             ELSE r.state # PAS_PUSHING
            /\ ev.tr.right_walled.at.M # NoObstacle =>
                 /\ a.gsp = (IF r.gsp < 0 THEN 0 ELSE r.gsp)
                 /\ r.movmode = MM_FLOOR =>
                      /\ a.xsp = Max(r.xsp, 0)
                      /\ a.angle = r.angle
                      /\ (~a.midair /\ a.state # PAS_ROLLING) =>
                           IF input_button_down(in, IB_LEFT)
                             THEN a.state = PAS_PUSHING /\ ~a.facing_right
                             ELSE a.state # PAS_PUSHING
C16_Witness ==
    /\ AfterTick /\ ev.tr.walls # <<>>
    /\ ev.tr.walls.at.N # NoObstacle
    /\ ev.tr.walls.pa.gsp > 0 /\ ev.tr.walls.pa.xsp > 0
    /\ ev.tr.walls.pa.movmode = MM_FLOOR
    /\ input_button_down(ev.tr.walls.in, IB_RIGHT)
    /\ ~ev.tr.right_walled.pa.midair
    /\ ev.tr.right_walled.pa.state = PAS_PUSHING
    /\ ev.tr.right_walled.pa.xsp = 0

\* the ledge step finds the actor grounded, at rest, in Floor mode, neither in Ledge nor
\* Pushing, with nothing under its centre and only one of its feet on the ground
OnLedge(right) ==
    /\ AfterTick /\ ev.tr.ledge # <<>>
    /\ LET b == ev.tr.ledge.pa
           at == ev.tr.ledge.at
           s == IF at.A # NoObstacle THEN sensor_A(b) ELSE sensor_B(b)
           x == TruncPx(b.position.x)
           y == TruncPx(b.position.y) + s.y2 + 8
       IN  /\ ~b.midair /\ b.movmode = MM_FLOOR /\ nearly_zero(b.gsp)
           /\ b.state # PAS_LEDGE /\ b.state # PAS_PUSHING
           /\ (at.A # NoObstacle) = right /\ (at.B # NoObstacle) = ~right
           /\ obstaclemap_get_best_obstacle_at(Worlds[world], x, y, x, y, b.movmode) = NoObstacle

\* C17 as stated: such an actor ends the tick in state Ledge, facing right when A is
\* the foot on the ground and left when it is B
C17_LedgeEndsTick ==
    /\ OnLedge(TRUE) => (pa.state = PAS_LEDGE /\ pa.facing_right)
    /\ OnLedge(FALSE) => (pa.state = PAS_LEDGE /\ ~pa.facing_right)

\* C17, amended: such an actor ends the tick in state Ledge, facing right when A is the
\* foot on the ground and left when it is B, unless it jumps in that tick
C17_LedgeBalance ==
    /\ (OnLedge(TRUE) /\ ~ev.tr.jumped) => (pa.state = PAS_LEDGE /\ pa.facing_right)
    /\ (OnLedge(FALSE) /\ ~ev.tr.jumped) => (pa.state = PAS_LEDGE /\ ~pa.facing_right)
C17_Witness ==
    /\ OnLedge(FALSE) /\ ~ev.tr.jumped
    /\ ev.tr.ledge.pa.facing_right
    /\ pa.state = PAS_LEDGE /\ ~pa.facing_right

\* C18: a tick that starts in Dead or Drowned makes ysp = min(ysp + grv * dt, topyspeed),
\* adds the new ysp * dt to position.y and makes facing_right true; position.x, xsp, gsp,
\* angle, movmode and the state are unchanged whatever the buttons, so the state remains
\* Dead or Drowned tick after tick
C18_DeadOnlyFalls ==
    [][(ev'.op = "update" /\ (pa.state = PAS_DEAD \/ pa.state = PAS_DROWNED)) =>
          /\ pa'.ysp = Min(pa.ysp + Dv(par.grv, ev'.tr.step), par.topyspeed)
          /\ pa'.position.y = pa.position.y + Ds(pa'.ysp, ev'.tr.step)
          /\ pa'.facing_right
          /\ pa'.position.x = pa.position.x
          /\ pa'.xsp = pa.xsp /\ pa'.gsp = pa.gsp
          /\ pa'.angle = pa.angle /\ pa'.movmode = pa.movmode
          /\ pa'.state = pa.state]_vars
C18_Witness ==
    /\ AfterTick /\ pa.state = PAS_DEAD
    /\ pa.ysp = par.topyspeed
    /\ pa.gsp # 0
    /\ input_button_down(input, IB_LEFT)
    /\ pa.position.y > Px(GroundTop + 50)

\* C19: resurrect(position) from Dead or Drowned sets gsp = xsp = ysp = 0, facing_right,
\* state Stopped and the position, and returns true; in every other state it returns false
\* and changes nothing
C19_Ressurrect ==
    [][ev'.op = "ressurrect" =>
          IF pa.state = PAS_DEAD \/ pa.state = PAS_DROWNED
            THEN /\ pa'.gsp = 0 /\ pa'.xsp = 0 /\ pa'.ysp = 0
                 /\ pa'.facing_right
                 /\ pa'.state = PAS_STOPPED
                 /\ pa'.position = ev'.tr.call[1]
                 /\ ev'.tr.call[2] = TRUE
            ELSE /\ pa' = pa
                 /\ ev'.tr.call[2] = FALSE]_vars
C19_Witness ==
    /\ ev.op = "ressurrect" /\ ev.tr.call[2] = TRUE
    /\ pa.state = PAS_STOPPED /\ pa.ysp = 0
    /\ pa.position = ev.tr.call[1]
    /\ pa.position.y < Px(Standing)

\* C20: lock_horizontally_for(seconds) leaves hlock_timer = max(old hlock_timer,
\* max(seconds, 0)): the timer never decreases, a negative duration leaves it unchanged
C20_LockOnlyGrows ==
    [][ev'.op = "lock_horizontally_for" =>
          /\ pa'.hlock_timer = Max(pa.hlock_timer, Max(ev'.tr.call[1], 0))
          /\ pa'.hlock_timer >= pa.hlock_timer
          /\ ev'.tr.call[1] < 0 => pa'.hlock_timer = pa.hlock_timer]_vars
C20_Witness ==
    /\ ev.op = "lock_horizontally_for"
    /\ ev.tr.call[1] > 0
    /\ pa.hlock_timer > ev.tr.call[1]

\* C21 as stated: every tick that begins with hlock_timer > 0 ends with hlock_timer
\* smaller by dt (not below 0) and with LEFT and RIGHT not held, and makes facing_right
\* the sign of gsp when grounded, of xsp when midair
C21_LockEveryTick ==
    [][(ev'.op = "update" /\ pa.hlock_timer > 0) =>
          /\ pa'.hlock_timer = Max(pa.hlock_timer - ev'.tr.step, 0)
          /\ ~input_button_down(input', IB_LEFT) /\ ~input_button_down(input', IB_RIGHT)
          /\ (~pa'.was_midair /\ pa.gsp # 0) => (pa'.facing_right = (pa.gsp > 0))
          /\ (pa'.was_midair /\ pa.xsp # 0) => (pa'.facing_right = (pa.xsp > 0))]_vars

\* C21, amended: in every tick that begins with hlock_timer > 0 in a state other than Dead
\* and Drowned, the control lock step makes hlock_timer smaller by dt (not below 0), and the
\* tick ends with that value unless the timer reached 0 and the fall-off step set it to
\* 0.5 s; LEFT and RIGHT are not held from that step on; facing_right is the sign of gsp
\* when grounded, of xsp when midair
C21_LockStep ==
    [][(ev'.op = "update" /\ pa.hlock_timer > 0 /\ pa.state # PAS_DEAD /\ pa.state # PAS_DROWNED) =>
          LET b == ev'.tr.lock.pa
              a == ev'.tr.locked.pa
          IN  /\ a.hlock_timer = Max(pa.hlock_timer - ev'.tr.step, 0)
              /\ pa'.hlock_timer = (IF ev'.tr.falloff THEN TimeUnit \div 2 ELSE a.hlock_timer)
              /\ ev'.tr.falloff => a.hlock_timer = 0
              /\ ~input_button_down(ev'.tr.locked.in, IB_LEFT) /\ ~input_button_down(ev'.tr.locked.in, IB_RIGHT)
              /\ ~input_button_down(input', IB_LEFT) /\ ~input_button_down(input', IB_RIGHT)
              /\ (~b.midair /\ b.gsp # 0) => (a.facing_right = (b.gsp > 0) /\ pa'.facing_right = (b.gsp > 0))
              /\ (b.midair /\ b.xsp # 0) => (a.facing_right = (b.xsp > 0) /\ pa'.facing_right = (b.xsp > 0))]_vars
C21_Witness ==
    /\ AfterTick /\ ev.tr.lock # <<>>
    /\ ev.tr.lock.pa.hlock_timer > ev.tr.step
    /\ ev.tr.lock.pa.midair /\ ev.tr.lock.pa.xsp < 0 /\ ev.tr.lock.pa.facing_right
    /\ IB_LEFT \in ev.tr.lock.in.state
    /\ ~pa.facing_right /\ pa.hlock_timer > 0

\* C22: set_airdrag(value) stores the value clamped to [0, 1]; after create and after any
\* set_airdrag, airdrag is in [0, 1] and the coefficients are (0, 1) for airdrag = 1, (0, 0)
\* for airdrag = 0 and (60 a ln a, a (1 - ln a)) for 0 < a < 1
C22_AirdragClamped ==
    /\ par.airdrag >= 0 /\ par.airdrag <= TrigUnit
    /\ ev.op = "set_airdrag" => par.airdrag = Max(0, Min(TrigUnit, ev.tr.call[1]))
    /\ par.airdrag = TrigUnit => par.airdrag_coefficient = <<0, TrigUnit>>
    /\ par.airdrag = 0 => par.airdrag_coefficient = <<0, 0>>
    /\ (par.airdrag > 0 /\ par.airdrag < TrigUnit) =>
         par.airdrag_coefficient = <<60 * MulTrig(par.airdrag, logf(par.airdrag)),
                                     MulTrig(par.airdrag, TrigUnit - logf(par.airdrag))>>
C22_Witness ==
    /\ ev.op = "set_airdrag" /\ ev.tr.call[1] > TrigUnit
    /\ par.airdrag = TrigUnit
    /\ par.airdrag_coefficient = <<0, TrigUnit>>
    /\ steps > 1

\* xsp at the fall-off step after the air acceleration of lines 1229-1237
AirAccelerated ==
    LET b == ev.tr.air.pa
        R == input_button_down(ev.tr.air.in, IB_RIGHT)
        L == input_button_down(ev.tr.air.in, IB_LEFT)
        x1 == IF R /\ ~L /\ b.xsp < par.topspeed THEN Min(b.xsp + Dv(par.air, ev.tr.step), par.topspeed) ELSE b.xsp
    IN  IF L /\ ~R /\ x1 > -par.topspeed THEN Max(x1 - Dv(par.air, ev.tr.step), -par.topspeed) ELSE x1
\* the tick is in the air with ysp between airdragthreshold and 0 and |xsp| >= airdragxthreshold
DragQualifying ==
    /\ AfterTick /\ ev.tr.air # <<>>
    /\ ev.tr.air.pa.midair
    /\ ev.tr.air.pa.ysp < 0 /\ ev.tr.air.pa.ysp > par.airdragthreshold
    /\ Abs(AirAccelerated) >= par.airdragxthreshold

\* C23 as stated: in every such tick xsp is multiplied by c0 * dt + c1, so it becomes 0
\* with airdrag = 0 and is unchanged with airdrag = 1
C23_DragEveryTick ==
    DragQualifying =>
        /\ ev.tr.jump.pa.xsp = MulTrig(AirAccelerated, Dv(par.airdrag_coefficient[1], ev.tr.step)
                                                       + par.airdrag_coefficient[2])
        /\ par.airdrag = 0 => ev.tr.jump.pa.xsp = 0
        /\ par.airdrag = TrigUnit => ev.tr.jump.pa.xsp = AirAccelerated

\* C23, amended: in every such tick whose state is not GettingHit (nor Dead, nor Drowned)
\* xsp is multiplied by c0 * dt + c1, so it becomes 0 with airdrag = 0 and is unchanged
\* with airdrag = 1
C23_DragUnlessHit ==
    (DragQualifying /\ ev.tr.air.pa.state # PAS_GETTINGHIT) =>
        /\ ev.tr.jump.pa.xsp = MulTrig(AirAccelerated, Dv(par.airdrag_coefficient[1], ev.tr.step)
                                                       + par.airdrag_coefficient[2])
        /\ par.airdrag = 0 => ev.tr.jump.pa.xsp = 0
        /\ par.airdrag = TrigUnit => ev.tr.jump.pa.xsp = AirAccelerated
C23_Witness ==
    /\ DragQualifying /\ ev.tr.air.pa.state # PAS_GETTINGHIT
    /\ par.airdrag = 0
    /\ ev.tr.air.pa.xsp < 0
    /\ ev.tr.jump.pa.xsp = 0 /\ pa.xsp = 0

\* C24: get_angle returns ((256 - angle) * 180 / 128) mod 360, a value in [0, 359]; for
\* the angle that encodes a whole number of degrees it returns that number to within
\* 1.40625 degrees around the circle
C24_GetAngle ==
    ev.op = "get_angle" =>
        LET degrees == ev.tr.call[1]
            off == IF Len(ev.tr.call) = 2 THEN Abs(degrees - ev.tr.call[2]) ELSE 0
        IN  /\ degrees = (((256 - pa.angle) * 180) \div 128) % 360
            /\ degrees >= 0 /\ degrees <= 359
            /\ Min(off, 360 - off) * 100000 <= 140625
C24_Witness ==
    /\ ev.op = "get_angle" /\ Len(ev.tr.call) = 2
    /\ ev.tr.call[2] = 359
    /\ ev.tr.call[1] = 0
    /\ pa.angle = 0

\* C30: when the movement mode goes from Ceiling to Floor gsp is negated; no other
\* transition of the mode, and no update that keeps the mode, changes gsp
C30_GspNegatedOnce ==
    [][ev'.op = "force_angle" =>
          IF pa.movmode = MM_CEILING /\ pa'.movmode = MM_FLOOR
            THEN pa'.gsp = -pa.gsp
            ELSE pa'.gsp = pa.gsp]_vars
C30_Witness ==
    /\ ev.op = "force_angle" /\ ev.tr.call[1] = 240
    /\ pa.movmode = MM_FLOOR
    /\ pa.gsp = -RollSpeed

\* what the foot sensor s of actor a reads before the logic of the two clouds
FootRead(a, s) ==
    FootCloud([pa |-> a, om |-> Worlds[world]], s,
              FootUpwards([pa |-> a, om |-> Worlds[world]],
                          SensorAt([pa |-> a, om |-> Worlds[world]], s, ~a.midair \/ a.ysp >= 0)))
\* the feet of actor a are on two different clouds, in Floor mode, whose tops are more
\* than 8 apart
OnTwoClouds(a) ==
    /\ FootRead(a, sensor_A(a)) # NoObstacle /\ FootRead(a, sensor_B(a)) # NoObstacle
    /\ FootRead(a, sensor_A(a)) # FootRead(a, sensor_B(a))
    /\ ~obstacle_is_solid(Worlds[world][FootRead(a, sensor_A(a))])
    /\ ~obstacle_is_solid(Worlds[world][FootRead(a, sensor_B(a))])
    /\ a.movmode = MM_FLOOR
    /\ Abs(CloudTop([pa |-> a, om |-> Worlds[world]], sensor_A(a), FootRead(a, sensor_A(a)))
           - CloudTop([pa |-> a, om |-> Worlds[world]], sensor_B(a), FootRead(a, sensor_B(a)))) > 8
\* the cloud under foot A is the higher one (its top has the smaller y)
AIsHigher(a) ==
    CloudTop([pa |-> a, om |-> Worlds[world]], sensor_A(a), FootRead(a, sensor_A(a)))
      < CloudTop([pa |-> a, om |-> Worlds[world]], sensor_B(a), FootRead(a, sensor_B(a)))

\* C25 as stated: the first read of the sensors in a tick keeps the higher of the two
\* clouds and drops the lower one
C25_HigherCloudKept ==
    [][(ev'.op = "update" /\ ev'.tr.lock # <<>> /\ OnTwoClouds(pa)) =>
          IF AIsHigher(pa)
            THEN ev'.tr.lock.at.A = FootRead(pa, sensor_A(pa)) /\ ev'.tr.lock.at.B = NoObstacle
            ELSE ev'.tr.lock.at.B = FootRead(pa, sensor_B(pa)) /\ ev'.tr.lock.at.A = NoObstacle]_vars

\* C25, amended: the first read of the sensors in a tick keeps the lower of the two
\* clouds and drops the higher one
C25_LowerCloudKept ==
    [][(ev'.op = "update" /\ ev'.tr.lock # <<>> /\ OnTwoClouds(pa)) =>
          IF AIsHigher(pa)
            THEN ev'.tr.lock.at.B = FootRead(pa, sensor_B(pa)) /\ ev'.tr.lock.at.A = NoObstacle
            ELSE ev'.tr.lock.at.A = FootRead(pa, sensor_A(pa)) /\ ev'.tr.lock.at.B = NoObstacle]_vars
C25_Witness ==
    /\ AfterTick /\ ev.tr.lock # <<>> /\ steps > 1
    /\ world = 8
    /\ ev.tr.lock.pa.position = pa.position
    /\ OnTwoClouds(pa) /\ AIsHigher(pa)
    /\ ev.tr.lock.at.A = NoObstacle /\ ev.tr.lock.at.B = 2

\* the angle that the ceiling step computes for the actor seen at the point walled of
\* the tick: the angle reacquired from the forced angle 0x80
CeilingAngle ==
    SET_AUTO_ANGLE(FORCE_ANGLE([pa |-> ev.tr.walled.pa, in |-> ev.tr.walled.in, at |-> ev.tr.walled.at,
                                om |-> Worlds[world], m |-> par, tr |-> NoTrace], 128)).pa.angle
\* the actor meets a ceiling while moving upwards and the angle reacquired is steep
SteepCeiling ==
    /\ AfterTick /\ ev.tr.walled # <<>>
    /\ ev.tr.walled.pa.midair /\ ev.tr.walled.pa.touching_ceiling /\ ev.tr.walled.pa.ysp < 0
    /\ (CeilingAngle >= 160 /\ CeilingAngle <= 191) \/ (CeilingAngle >= 64 /\ CeilingAngle <= 95)

\* the ground speed of a reattachment at angle about, from the velocity of actor a
CeilingGsp(a, about) == IF Abs(a.xsp) > -a.ysp THEN -a.xsp ELSE a.ysp * (-sign(SIN(about)))

\* C26: an actor that is midair, touches a ceiling and moves upwards, and whose angle
\* reacquired from the forced angle 0x80 is within [0xA0, 0xBF] or [0x40, 0x5F], reattaches:
\* it is grounded with gsp = -xsp if |xsp| > -ysp and ysp * -sign(sin(angle)) otherwise,
\* xsp = ysp = 0, and its state is Walking or Running unless it is Rolling
C26_CeilingReattach ==
    SteepCeiling =>
        /\ ~ev.tr.ceiled.pa.midair
        /\ ev.tr.ceiled.pa.gsp = CeilingGsp(ev.tr.walled.pa, CeilingAngle)
        /\ ev.tr.ceiled.pa.xsp = 0 /\ ev.tr.ceiled.pa.ysp = 0
        /\ IF ev.tr.walled.pa.state = PAS_ROLLING THEN ev.tr.ceiled.pa.state = PAS_ROLLING
           ELSE ev.tr.ceiled.pa.state \in {PAS_WALKING, PAS_RUNNING}

\* no tick reattaches the actor to a ceiling
CeilingNeverReattaches == AfterTick => ev.tr.reattached # TRUE

\* the displacement (xsp * dt, ysp * dt) of the motion step of the tick
Displacement ==
    [x |-> Ds(ev.tr.jumped_to.pa.xsp, ev.tr.step), y |-> Ds(ev.tr.jumped_to.pa.ysp, ev.tr.step)]
\* the most sub-steps of a motion step: ceil(max(capspeed, topyspeed) / 60 / 2)
MostIncrements == CeilDiv(Max(par.capspeed, par.topyspeed), 2 * VelUnit * TARGET_FPS)
\* N = min(ceil(max(capspeed, topyspeed) / 60 / 2), ceil(|displacement|))
NumIncrements == CeilLength(Displacement.x, Displacement.y, MostIncrements)
\* how far the motion step of the tick moved the actor
Moved ==
    [x |-> ev.tr.moved.pa.position.x - ev.tr.jumped_to.pa.position.x,
     y |-> ev.tr.moved.pa.position.y - ev.tr.jumped_to.pa.position.y]
\* no sensor stopped a sub-step of the motion step
NothingBlocks == ~ev.tr.blocked
\* the number of sub-steps, and their sum when nothing blocks (each sub-step is rounded
\* to the unit of positions)
IncrementsSum ==
    /\ ev.tr.moves <= NumIncrements
    /\ NothingBlocks =>
         /\ ev.tr.moves = NumIncrements
         /\ Abs(Moved.x - Displacement.x) <= NumIncrements
         /\ Abs(Moved.y - Displacement.y) <= NumIncrements

\* C27 as stated: N sub-steps that sum to the displacement when nothing blocks, each of
\* at most 2 pixels along each axis, for every velocity and every frame delta
C27_IncrementsAtMostTwo ==
    (AfterTick /\ ev.tr.moved # <<>>) =>
        /\ IncrementsSum
        /\ ev.tr.moves > 0 =>
             /\ Abs(Moved.x) <= ev.tr.moves * Px(2) /\ Abs(Moved.y) <= ev.tr.moves * Px(2)

\* C27, amended: N sub-steps that sum to the displacement when nothing blocks, each of at
\* most 2 pixels along each axis when the displacement is at most 2 pixels times
\* ceil(max(capspeed, topyspeed) / 60 / 2) along each axis
C27_Increments ==
    (AfterTick /\ ev.tr.moved # <<>>) =>
        /\ IncrementsSum
        /\ (/\ ev.tr.moves > 0
            /\ Abs(Displacement.x) <= MostIncrements * Px(2)
            /\ Abs(Displacement.y) <= MostIncrements * Px(2)) =>
             /\ Abs(Moved.x) <= ev.tr.moves * Px(2) /\ Abs(Moved.y) <= ev.tr.moves * Px(2)
C27_Witness ==
    /\ AfterTick /\ ev.tr.moved # <<>> /\ NothingBlocks
    /\ ev.tr.moves = MostIncrements
    /\ Abs(Displacement.x) > Px(12) /\ Abs(Displacement.x) <= MostIncrements * Px(2)
    /\ Abs(Displacement.y) > 0 /\ Abs(Displacement.y) <= MostIncrements * Px(2)
    /\ Abs(Moved.x) > Px(12) /\ Abs(Moved.y) > 0

\* the tick takes the actor from midair to the ground
Landing == AfterTick /\ ev.tr.stuck # <<>> /\ ~ev.tr.stuck.pa.midair /\ ev.tr.stuck.pa.was_midair
\* the ground speed of an actor b that lands with the angle of b
LandingGsp(b) ==
    CASE b.angle >= 240 \/ b.angle <= 15 -> b.xsp
      [] (b.angle >= 224 /\ b.angle <= 239) \/ (b.angle >= 16 /\ b.angle <= 31) ->
           IF Abs(b.xsp) > b.ysp THEN b.xsp ELSE RoundDiv(b.ysp, 2) * (-sign(SIN(b.angle)))
      [] (b.angle >= 192 /\ b.angle <= 223) \/ (b.angle >= 32 /\ b.angle <= 63) ->
           IF Abs(b.xsp) > b.ysp THEN b.xsp ELSE b.ysp * (-sign(SIN(b.angle)))
      [] OTHER -> b.gsp

\* C28: in a tick that takes the actor from midair to the ground, gsp is set by the
\* landing angle: xsp within [0xF0, 0xFF] or [0x00, 0x0F]; within [0xE0, 0xEF] or
\* [0x10, 0x1F], xsp if |xsp| > ysp and 0.5 * ysp * -sign(sin(angle)) otherwise; within
\* [0xC0, 0xDF] or [0x20, 0x3F], xsp if |xsp| > ysp and ysp * -sign(sin(angle)) otherwise;
\* then xsp = ysp = 0 and the state is Walking or Running unless it is Rolling
C28_Landing ==
    Landing =>
        /\ ev.tr.reacquired.pa.gsp = LandingGsp(ev.tr.stuck.pa)
        /\ ev.tr.reacquired.pa.xsp = 0 /\ ev.tr.reacquired.pa.ysp = 0
        /\ IF ev.tr.stuck.pa.state = PAS_ROLLING THEN ev.tr.reacquired.pa.state = PAS_ROLLING
           ELSE ev.tr.reacquired.pa.state =
                  IF Abs(ev.tr.reacquired.pa.gsp) >= par.topspeed THEN PAS_RUNNING ELSE PAS_WALKING
C28_Witness ==
    /\ Landing
    /\ ev.tr.stuck.pa.angle >= 16 /\ ev.tr.stuck.pa.angle <= 31
    /\ ev.tr.stuck.pa.ysp > 0 /\ ev.tr.stuck.pa.xsp # 0 /\ Abs(ev.tr.stuck.pa.xsp) <= ev.tr.stuck.pa.ysp
    /\ ev.tr.reacquired.pa.gsp = RoundDiv(ev.tr.stuck.pa.ysp, 2)
    /\ ev.tr.reacquired.pa.state = PAS_WALKING

\* the actor b is about to fall off a wall or a ceiling
FallsOff(b) ==
    ~b.midair /\ b.movmode # MM_FLOOR /\ b.hlock_timer = 0 /\ Abs(b.gsp) < par.falloffthreshold

\* C29: at the fall-off step, an actor that is grounded in a mode other than Floor with
\* hlock_timer = 0 and |gsp| < falloffthreshold gets hlock_timer = 0.5 s and, if its angle
\* is within [0x40, 0xC0], gsp = 0 and the angle 0 in Floor mode; otherwise the step
\* leaves hlock_timer, gsp and the angle unchanged
C29_FallOff ==
    (AfterTick /\ ev.tr.reacquired # <<>>) =>
        IF FallsOff(ev.tr.reacquired.pa)
          THEN /\ ev.tr.fallen.pa.hlock_timer = TimeUnit \div 2
               /\ IF ev.tr.reacquired.pa.angle >= 64 /\ ev.tr.reacquired.pa.angle <= 192
                    THEN /\ ev.tr.fallen.pa.gsp = 0 /\ ev.tr.fallen.pa.angle = 0
                         /\ ev.tr.fallen.pa.movmode = MM_FLOOR
                    ELSE /\ ev.tr.fallen.pa.gsp = ev.tr.reacquired.pa.gsp
                         /\ ev.tr.fallen.pa.angle = ev.tr.reacquired.pa.angle
          ELSE /\ ev.tr.fallen.pa.hlock_timer = ev.tr.reacquired.pa.hlock_timer
               /\ ev.tr.fallen.pa.gsp = ev.tr.reacquired.pa.gsp
               /\ ev.tr.fallen.pa.angle = ev.tr.reacquired.pa.angle
C29_Witness ==
    /\ AfterTick /\ ev.tr.reacquired # <<>> /\ FallsOff(ev.tr.reacquired.pa)
    /\ ev.tr.reacquired.pa.angle = 64 /\ ev.tr.reacquired.pa.gsp # 0
    /\ ev.tr.fallen.pa.hlock_timer = TimeUnit \div 2
    /\ ev.tr.fallen.pa.gsp = 0 /\ ev.tr.fallen.pa.angle = 0 /\ ev.tr.fallen.pa.movmode = MM_FLOOR

\* the sticky physics of the tick made an attempt and left the actor midair
StickyFailed == ev.tr.sticky /\ ev.tr.ground.pa.midair
\* the actor b makes an attempt of sticky physics whatever its lock
StickyFromGround(b) ==
    /\ b.midair /\ ~b.was_midair
    /\ b.state \notin {PAS_JUMPING, PAS_GETTINGHIT, PAS_SPRINGING, PAS_DROWNED, PAS_DEAD}
\* the lock is set by a failed attempt of a Rolling actor, and it bars the attempts that
\* only the state Rolling asks for
StickyLocks ==
    /\ (StickyFailed /\ ev.tr.ceiled.pa.state = PAS_ROLLING) => ev.tr.ground.pa.sticky_lock
    /\ (ev.tr.ceiled.pa.sticky_lock /\ ~StickyFromGround(ev.tr.ceiled.pa)) => ~ev.tr.sticky

\* C31 as stated: a failed attempt of a Rolling actor sets sticky_lock, no attempt is made
\* for the state Rolling while it is set, and it is cleared once the actor is grounded
C31_LockClearedOnGround ==
    (AfterTick /\ ev.tr.ground # <<>>) =>
        /\ StickyLocks
        /\ ~ev.tr.ceiled.pa.midair => ~ev.tr.ground.pa.sticky_lock

\* C31, amended: a failed attempt of a Rolling actor sets sticky_lock, no attempt is made
\* for the state Rolling while it is set, and it is cleared once the actor is grounded in
\* the state Rolling; a grounded actor in another state keeps it
C31_StickyLock ==
    (AfterTick /\ ev.tr.ground # <<>>) =>
        /\ StickyLocks
        /\ (~ev.tr.ceiled.pa.midair /\ ev.tr.ceiled.pa.state = PAS_ROLLING) => ~ev.tr.ground.pa.sticky_lock
        /\ (~ev.tr.ceiled.pa.midair /\ ev.tr.ceiled.pa.state # PAS_ROLLING) =>
              ev.tr.ground.pa.sticky_lock = ev.tr.ceiled.pa.sticky_lock
C31_Witness ==
    /\ AfterTick /\ ev.tr.ground # <<>>
    /\ ev.tr.ceiled.pa.sticky_lock /\ ~ev.tr.ceiled.pa.midair /\ ev.tr.ceiled.pa.state = PAS_ROLLING
    /\ ~ev.tr.ground.pa.sticky_lock

\* the points of a tick at which the actor is seen, in the order of the tick
TickPoints ==
    <<"lock", "locked", "ledge", "roll", "charge", "charged", "air", "jump", "jumped_to", "moved",
      "walls", "walled", "ceiled", "ground", "stuck", "reacquired", "fallen">>
\* the midair flag of the first read of the sensors in a tick that starts with actor a
FirstMidair(a, in) ==
    update_sensors([pa |-> a, in |-> in, om |-> Worlds[world], m |-> par,
                    at |-> [A |-> NoObstacle, B |-> NoObstacle, C |-> NoObstacle, D |-> NoObstacle,
                            M |-> NoObstacle, N |-> NoObstacle],
                    tr |-> NoTrace]).pa.midair
\* the actor seen at a point of the tick, with what its sensors read there
SeenAt(e, point) ==
    [pa |-> e.tr[point].pa, in |-> e.tr[point].in, at |-> e.tr[point].at,
     om |-> Worlds[world], m |-> par, tr |-> NoTrace]
\* the phases of the collision response run in order, each on the result of the one before
PhasesInOrder(e) ==
    /\ e.tr.walled.pa = WallCollisions(SeenAt(e, "walls")).pa
    /\ e.tr.ceiled.pa = CeilingCollision(SeenAt(e, "walled")).pa
    /\ e.tr.ground.pa = StickyPhysics(SeenAt(e, "ceiled")).pa
    /\ e.tr.stuck.pa = StickToTheGround(SeenAt(e, "ground")).pa
    /\ e.tr.reacquired.pa = ReacquisitionOfTheGround(SeenAt(e, "stuck")).pa
    /\ e.tr.fallen.pa = FallingOffWallsAndCeilings(SeenAt(e, "reacquired")).pa

\* C32: in a tick, was_midair is the midair flag of the first read of the sensors, at every
\* point of the tick and at its end, and wall response, ceiling response, sticky physics,
\* ground snap, ground reacquisition and the fall-off test run in this order
C32_WasMidairOnce ==
    [][ev'.op = "update" =>
          /\ pa'.was_midair = FirstMidair(pa, input')
          /\ ev'.tr.lock # <<>> =>
               /\ \A i \in 1..Len(TickPoints) : ev'.tr[TickPoints[i]].pa.was_midair = FirstMidair(pa, input')
               /\ PhasesInOrder(ev')]_vars
C32_Witness ==
    /\ AfterTick /\ ev.tr.lock # <<>>
    /\ pa.was_midair /\ ev.tr.jumped_to.pa.midair /\ ~ev.tr.moved.pa.midair /\ ~pa.midair
    /\ ev.tr.landed

\* the point at the distance u of the tail (x, y) of a foot sensor, along the axis that
\* points to the ground in the movmode
StickyDown(movmode, x, y, u) ==
    CASE movmode = MM_FLOOR -> <<x, y + u>>
      [] movmode = MM_RIGHTWALL -> <<x + u, y>>
      [] movmode = MM_CEILING -> <<x, y - u>>
      [] movmode = MM_LEFTWALL -> <<x - u, y>>
\* the distances u of 4..11 at which the actor b has an obstacle below the foot sensor
StickyBelow(b) ==
    {u \in 4..11 :
        \E w \in {sensor_worldpos(IF b.xsp > 0 THEN sensor_B(b) ELSE sensor_A(b), b.position, b.movmode)} :
            \E p \in {StickyDown(b.movmode, w.x2, w.y2, u)} :
                obstaclemap_obstacle_exists(Worlds[world], p[1], p[2])}
\* the attempt of the tick looked for the ground (the actor was fast or Rolling)
StickyScanned ==
    /\ ev.tr.sticky
    /\ Abs(ev.tr.ceiled.pa.xsp) > par.topspeed \/ ev.tr.ceiled.pa.state = PAS_ROLLING

\* C33: sticky physics probes and moves in the same direction: in every movmode the
\* actor is moved by the first u of 4..11 at which there is an obstacle at the tail of
\* the foot sensor displaced by u along the local-down axis (Floor +y, RightWall +x,
\* Ceiling -y, LeftWall -x), and by 12 if there is none
C33_ProbesAlongDown ==
    (AfterTick /\ ev.tr.ground # <<>> /\ StickyScanned) =>
        \E u \in 4..12 :
            /\ ev.tr.reach = <<u>>
            /\ u < 12 => u \in StickyBelow(ev.tr.ceiled.pa)
            /\ \A v \in StickyBelow(ev.tr.ceiled.pa) : u <= v

\* the position p moved by u pixels along the axis that points to the ground in the movmode
StickyMoved(movmode, p, u) ==
    [x |-> StickyDown(movmode, p.x, p.y, Px(u))[1], y |-> StickyDown(movmode, p.x, p.y, Px(u))[2]]
\* the attempt of the tick looked for the ground and found no obstacle for any u of 4..11
StickyFoundNothing == StickyScanned /\ ev.tr.reach = <<12>>

\* C34 as stated: if no obstacle is found beneath the foot sensor for any u in [4, 12)
\* the actor is not displaced, and an attempt that leaves the actor midair leaves its
\* position as it was
C34_OnlyWhenFound ==
    (AfterTick /\ ev.tr.ground # <<>> /\ ev.tr.sticky) =>
        /\ StickyFoundNothing => ev.tr.ground.pa.position = ev.tr.ceiled.pa.position
        /\ ev.tr.ground.pa.midair => ev.tr.ground.pa.position = ev.tr.ceiled.pa.position

\* C34, amended: the translation is kept only when the sensor read at the displaced
\* position finds the ground: if no obstacle is found beneath the foot sensor for any u
\* in [4, 12) the actor is displaced by 12 when that read grounds it and is not displaced
\* otherwise, and an attempt that leaves the actor midair leaves its position as it was
C34_StickyKept ==
    (AfterTick /\ ev.tr.ground # <<>> /\ ev.tr.sticky) =>
        /\ (StickyFoundNothing /\ ~ev.tr.ground.pa.midair) =>
              ev.tr.ground.pa.position = StickyMoved(ev.tr.ceiled.pa.movmode, ev.tr.ceiled.pa.position, 12)
        /\ ~ev.tr.ground.pa.midair =>
              ev.tr.ground.pa.position
                = StickyMoved(ev.tr.ceiled.pa.movmode, ev.tr.ceiled.pa.position, ev.tr.reach[1])
        /\ ev.tr.ground.pa.midair => ev.tr.ground.pa.position = ev.tr.ceiled.pa.position
C34_Witness ==
    /\ AfterTick /\ ev.tr.ground # <<>> /\ StickyFoundNothing
    /\ ~ev.tr.ground.pa.midair
    /\ ev.tr.ground.pa.position.y = ev.tr.ceiled.pa.position.y + Px(12)

\* min(|a - b|, 256 - |a - b|)
AngleDistance(a, b) == Min(Abs(a - b), 256 - Abs(a - b))
\* the probes of the pass p of the angle reacquisition
PassProbe(p, side) ==
    AngleScan([pa |-> p.pa, om |-> Worlds[world]], p.hoff,
              sensor_A(p.pa).y2 - 1, (sensor_A(p.pa).y2 - sensor_A(p.pa).y1) * 3, side)
\* the obstacle under a probe q
PassObstacle(p, q) == obstaclemap_get_best_obstacle_at(Worlds[world], q.x, q.y, q.x, q.y, p.pa.movmode)
\* the ground point under the probe q, on the obstacle g
PassGround(p, q, g) ==
    IF p.pa.movmode \in {MM_FLOOR, MM_CEILING}
      THEN <<q.x, obstacle_ground_position(Worlds[world][g], q.x, q.y, GroundDir(p.pa.movmode))>>
      ELSE <<obstacle_ground_position(Worlds[world][g], q.x, q.y, GroundDir(p.pa.movmode)), q.y>>
\* both probes of the pass p found ground
PassFound(p) ==
    /\ PassProbe(p, -1).found /\ PassProbe(p, 1).found
    /\ PassObstacle(p, PassProbe(p, -1)) # NoObstacle
    /\ PassObstacle(p, PassProbe(p, 1)) # NoObstacle
\* the displacement between the ground points of the pass p
PassDisplacement(p) ==
    <<PassGround(p, PassProbe(p, 1), PassObstacle(p, PassProbe(p, 1)))[1]
        - PassGround(p, PassProbe(p, -1), PassObstacle(p, PassProbe(p, -1)))[1],
      PassGround(p, PassProbe(p, 1), PassObstacle(p, PassProbe(p, 1)))[2]
        - PassGround(p, PassProbe(p, -1), PassObstacle(p, PassProbe(p, -1)))[2]>>
PassSameObstacle(p) == PassObstacle(p, PassProbe(p, -1)) = PassObstacle(p, PassProbe(p, 1))
\* the angle of the displacement of the pass p
PassSlope(p) == SLOPE(PassDisplacement(p)[2], PassDisplacement(p)[1])
\* the probed angle of the pass p replaces the current one
PassAccepted(p) ==
    /\ PassFound(p)
    /\ PassDisplacement(p) # <<0, 0>>
    /\ PassSameObstacle(p) \/ AngleDistance(PassSlope(p), p.pa.angle) <= 37

\* C35: angle reacquisition rejects discontinuities: in every pass the probed angle
\* replaces the current angle only if both probes found ground, the displacement between
\* the ground points is not (0, 0) and either both are on the same obstacle or the
\* probed angle is within 0x25 of the current one; otherwise the angle stays as it was
C35_RejectsDiscontinuities ==
    AfterTick =>
        \A i \in 1..Len(ev.tr.passes) :
            ev.tr.passes[i].angle = IF PassAccepted(ev.tr.passes[i]) THEN PassSlope(ev.tr.passes[i])
                                    ELSE ev.tr.passes[i].pa.angle
\* a discontinuity between two obstacles is rejected, and a turn on one obstacle is taken
C35_Witness ==
    /\ AfterTick
    /\ \E i \in 1..Len(ev.tr.passes) :
          /\ PassFound(ev.tr.passes[i]) /\ ~PassSameObstacle(ev.tr.passes[i])
          /\ AngleDistance(PassSlope(ev.tr.passes[i]), ev.tr.passes[i].pa.angle) > 37
          /\ ev.tr.passes[i].angle = ev.tr.passes[i].pa.angle

\* the result of the pass p is unstable: a displacement beyond 10 or a turn beyond 0x14
PassUnstable(p) ==
    \/ Abs(p.dx) > 10 \/ Abs(p.dy) > 10
    \/ AngleDistance(p.angle, p.pa.angle) > 20
\* the pass q is a retry of the pass p
PassRetries(p, q) == q.hoff < 5
\* the number of the passes of the reacquisition that ends with the pass i
PassCount(i) == (5 - ev.tr.passes[i].hoff) \div 2 + 1

\* C36: angle reacquisition always terminates: hoff starts at 5, decreases by 2 per retry
\* and is never below 3 when the actor was midair at the start of the tick (below 1
\* otherwise), so there are at most 2 passes after midair and at most 3 otherwise; a
\* retry happens only while M and N are free and the last result was unstable
C36_Terminates ==
    AfterTick =>
        /\ ev.tr.passes # <<>> => ev.tr.passes[1].hoff = 5
        /\ \A i \in 1..Len(ev.tr.passes) :
              /\ ev.tr.passes[i].hoff \in {1, 3, 5}
              /\ ev.tr.passes[i].hoff >= (IF ev.tr.passes[i].pa.was_midair THEN 3 ELSE 1)
              /\ PassCount(i) <= (IF ev.tr.passes[i].pa.was_midair THEN 2 ELSE 3)
        /\ \A i \in 1..(Len(ev.tr.passes) - 1) :
              IF PassRetries(ev.tr.passes[i], ev.tr.passes[i + 1])
                THEN /\ ev.tr.passes[i + 1].hoff = ev.tr.passes[i].hoff - 2
                     /\ ev.tr.passes[i + 1].pa = ev.tr.passes[i].pa
                     /\ ev.tr.passes[i].at.M = NoObstacle /\ ev.tr.passes[i].at.N = NoObstacle
                     /\ PassUnstable(ev.tr.passes[i])
                ELSE ev.tr.passes[i + 1].hoff = 5
\* a reacquisition stops after two passes, for the actor was midair, with M and N free
\* and an unstable result
C36_Witness ==
    /\ AfterTick
    /\ \E i \in 1..Len(ev.tr.passes) :
          /\ ev.tr.passes[i].hoff = 3 /\ ev.tr.passes[i].pa.was_midair
          /\ PassUnstable(ev.tr.passes[i])
          /\ ev.tr.passes[i].at.M = NoObstacle /\ ev.tr.passes[i].at.N = NoObstacle

\* the entry of the table for the displacement (x, y), each component clamped to
\* [-11, 11]
SlopeClamped(y, x) == slp_table[12 + clip(y, -11, 11)][12 + clip(x, -11, 11)]
\* the rows and the columns of the table
SlopeRows == 1..23

\* C37: the slope lookup accepts any integer displacement: a component outside
\* [-11, 11] is clamped into that range before indexing, so the 23x23 table is never
\* indexed out of bounds, and the angle it yields, hence the angle of the actor after
\* every tick, is in [0, 255]
C37_SlopeClamped ==
    /\ ev.op = "SLOPE" =>
          /\ SlopeIndex(ev.tr.call[1]) + 1 \in SlopeRows /\ SlopeIndex(ev.tr.call[2]) + 1 \in SlopeRows
          /\ SlopeIndex(ev.tr.call[1]) = 11 + clip(ev.tr.call[1], -11, 11)
          /\ SlopeIndex(ev.tr.call[2]) = 11 + clip(ev.tr.call[2], -11, 11)
          /\ ev.tr.call[3] = SlopeClamped(ev.tr.call[1], ev.tr.call[2])
          /\ ev.tr.call[3] \in 0..255
    /\ AfterTick =>
          /\ pa.angle \in 0..255
          /\ \A i \in 1..Len(ev.tr.passes) : ev.tr.passes[i].angle \in 0..255
    /\ Len(slp_table) = 23
    /\ \A i \in SlopeRows : Len(slp_table[i]) = 23 /\ \A j \in SlopeRows : slp_table[i][j] \in 0..255
\* a lookup with both components beyond the limit
C37_Witness ==
    /\ ev.op = "SLOPE"
    /\ ev.tr.call[1] > 11 /\ ev.tr.call[2] < -11
    /\ ev.tr.call[3] = slp_table[23][1]

\* a read r of the sensors of the actor a: the sensors C and D read something only if
\* the actor was midair with ysp < 0, and then A and B read nothing
ReadGated(a, r) ==
    /\ (r.at.C # NoObstacle \/ r.at.D # NoObstacle) => (a.midair /\ a.ysp < 0)
    /\ (a.midair /\ a.ysp < 0) => (r.at.A = NoObstacle /\ r.at.B = NoObstacle /\ r.pa.midair)
    /\ r.pa.touching_ceiling => r.pa.midair
\* some foot sensor of the actor seen at a point is over an obstacle
FeetOverGround(s) ==
    \/ SensorAt(s, sensor_A(s.pa), TRUE) # NoObstacle
    \/ SensorAt(s, sensor_B(s.pa), TRUE) # NoObstacle

\* C38: after every sensor read touching_ceiling implies midair: C and D are enabled only
\* when the actor was midair with ysp < 0 before the read, and then A and B are disabled
\* and read none; a grounded actor never reports touching_ceiling and an actor moving
\* upward in the air does not become grounded through a read
C38_CeilingImpliesMidair ==
    /\ pa.touching_ceiling => pa.midair
    /\ (AfterTick /\ ev.tr.lock # <<>>) =>
          \A i \in 1..Len(TickPoints) :
              /\ ev.tr[TickPoints[i]].pa.touching_ceiling => ev.tr[TickPoints[i]].pa.midair
              /\ ReadGated(ev.tr[TickPoints[i]].pa, update_sensors(SeenAt(ev, TickPoints[i])))
\* the head of an actor that moves upward is at the ceiling while its feet are over the
\* ground: the read reports the ceiling and leaves the actor midair
C38_Witness ==
    /\ AfterTick /\ ev.tr.lock # <<>>
    /\ ev.tr.walled.pa.touching_ceiling /\ ev.tr.walled.pa.midair /\ ev.tr.moved.pa.ysp < 0
    /\ FeetOverGround(SeenAt(ev, "walled"))

\* C39: after every tick that did not start in Dead or Drowned, midair implies
\* angle = 0 and movmode = Floor
C39_AirborneIsUpright ==
    [][(ev'.op = "update" /\ pa.state \notin {PAS_DEAD, PAS_DROWNED})
          => (pa'.midair => (pa'.angle = 0 /\ pa'.movmode = MM_FLOOR))]_vars
\* the actor left a wall in the tick: it was midair at an angle before the angle was reset
C39_Witness ==
    /\ AfterTick /\ ev.tr.fallen # <<>>
    /\ ev.tr.fallen.pa.midair /\ ev.tr.fallen.pa.angle # 0 /\ ev.tr.fallen.pa.movmode # MM_FLOOR
    /\ pa.midair /\ pa.angle = 0 /\ pa.movmode = MM_FLOOR

\* C40: after every update fixed_time >= reference_time, whatever the frame deltas; hence
\* every update with dt of at most 1/60 runs the simulation with the fixed step of 1/60,
\* and the total simulated time (in the empty world, where the actor is always in the
\* air, midair_timer) is never behind the accumulated real time reference_time
C40_FixedTimeAhead ==
    [][ev'.op = "update" =>
          /\ pa'.reference_time = pa.reference_time + ev'.dt
          /\ pa'.fixed_time >= pa'.reference_time
          /\ ev'.dt <= FIXED_TIMESTEP => (ev'.tr.fixed /\ ev'.tr.step = FIXED_TIMESTEP)
          /\ world = 1 =>
                /\ pa'.midair_timer = pa.midair_timer + ev'.tr.step
                /\ pa'.midair_timer >= pa'.reference_time]_vars
\* a long frame that runs with the fixed step, for fixed_time was ahead, and leaves the
\* simulated time ahead of the real time
C40_Witness ==
    /\ AfterTick /\ world = 1
    /\ ev.dt > FIXED_TIMESTEP /\ ev.tr.fixed /\ ev.tr.step = FIXED_TIMESTEP
    /\ pa.fixed_time >= pa.reference_time
    /\ pa.midair_timer >= pa.reference_time

====
